---- MODULE Spec2Model ----
(***************************************************************************)
(* Address finder backend: MapAddressesService (latest revision in         *)
(* src/src/map/addresses/map-addresses.service.ts, lines 212-551).         *)
(*                                                                         *)
(* Strings are sequences of one-character strings.  A WKT keyword          *)
(* (POLYGON, MULTIPOLYGON, ...) is one element of such a sequence; every   *)
(* other element is a single character.  An optional request field is a    *)
(* sequence of length 0 (absent) or 1 (present).  Numbers are integers;    *)
(* similarity scores are exact rationals [n, d].                           *)
(***************************************************************************)
EXTENDS Integers, Sequences, FiniteSets, TLC

\* ------------------------------------------------------------------ bounds
\* number of records in the universe the dataset is drawn from
NumRecs == 3
\* largest batchSize / limit value a request carries (the smallest is -1)
MaxBatch == 2
\* longest cursor-following chain that is recorded
MaxPages == 4
\* most opening (closing) parentheses around the body of a parsed text
MaxParens == 3
\* most rings of a serialized polygon, most polygons of a multipolygon
MaxRings == 2
MaxPolys == 2
\* the largest number of requests in flight
MaxInflight == 2
\* the largest number of features in a seed file
MaxFeatures == 2
\* the largest number of records that match the tokens of a search
MaxMatching == 210
\* the largest number of lines in a streamed seed file
MaxLines == 3

\* ------------------------------------------------------- program constants
DefaultBatchSize == 500
DefaultSearchLimit == 100
MinCandidatePool == 100
ObjectIdHexLen == 24
DefaultMaxDistance == 1000
CHUNK_SIZE == 1000

\* --------------------------------------------------------- generic helpers
None == <<>>

Some(v) == <<v>>

IsSome(o) == Len(o) > 0

Min2(a, b) == IF a <= b THEN a ELSE b

Max2(a, b) == IF a >= b THEN a ELSE b

Abs(n) == IF n < 0 THEN 0 - n ELSE n

Take(s, n) == SubSeq(s, 1, Min2(Max2(n, 0), Len(s)))

Drop(s, n) == SubSeq(s, Min2(Max2(n, 0), Len(s)) + 1, Len(s))

\* the single element of a one-element set; {e : x \in {v}} evaluates v once
TheOne(S) == CHOOSE x \in S : TRUE

\* the tuple of a function on 1..n
AsTuple(f) == f \o <<>>

RECURSIVE Concat(_)
Concat(ss) == IF ss = <<>> THEN <<>> ELSE Head(ss) \o Concat(Tail(ss))

\* ------------------------------------------------------- string primitives
IsSpace(c) == c = " "

Digits == <<"0", "1", "2", "3", "4", "5", "6", "7", "8", "9">>

IsDigit(c) == \E i \in 1..10 : Digits[i] = c

DigitVal(c) == (CHOOSE i \in 1..10 : Digits[i] = c) - 1

\* String.prototype.trim
RECURSIVE TrimLeft(_)
TrimLeft(s) == IF s # <<>> /\ IsSpace(Head(s)) THEN TrimLeft(Tail(s)) ELSE s

RECURSIVE TrimRight(_)
TrimRight(s) ==
  IF s # <<>> /\ IsSpace(s[Len(s)]) THEN TrimRight(SubSeq(s, 1, Len(s) - 1))
  ELSE s

Trim(s) == TrimRight(TrimLeft(s))

\* String.prototype.toLowerCase / toUpperCase on the characters in use
LowerChar(c) ==
  CASE c = "A" -> "a" [] c = "B" -> "b" [] c = "C" -> "c" [] c = "D" -> "d"
    [] c = "E" -> "e" [] c = "F" -> "f"
    [] c = "POLYGON" -> "polygon" [] c = "MULTIPOLYGON" -> "multipolygon"
    [] c = "POINT" -> "point"
    [] OTHER -> c

UpperChar(c) ==
  CASE c = "a" -> "A" [] c = "b" -> "B" [] c = "c" -> "C" [] c = "d" -> "D"
    [] c = "e" -> "E" [] c = "f" -> "F"
    [] c = "polygon" -> "POLYGON" [] c = "multipolygon" -> "MULTIPOLYGON"
    [] c = "point" -> "POINT"
    [] OTHER -> c

ToLowerCase(s) == AsTuple([i \in 1..Len(s) |-> LowerChar(s[i])])

ToUpperCase(s) == AsTuple([i \in 1..Len(s) |-> UpperChar(s[i])])

StartsWith(s, p) == Len(p) <= Len(s) /\ SubSeq(s, 1, Len(p)) = p

\* some occurrence of p in s (an escaped-literal RegExp test)
Contains(s, p) ==
  \E i \in 0..(Len(s) - Len(p)) : SubSeq(s, i + 1, i + Len(p)) = p

\* ------------------------------------------------------------- record keys
\* A record key (ObjectId) is 24 hex digits, compared digit by digit.
HexChars ==
  <<"0", "1", "2", "3", "4", "5", "6", "7", "8", "9", "a", "b", "c", "d", "e", "f">>

IsHexChar(c) == \E i \in 1..16 : HexChars[i] = LowerChar(c)

HexVal(c) == (CHOOSE i \in 1..16 : HexChars[i] = LowerChar(c)) - 1

\* the key whose numeric value is n (n < 256)
Oid(n) ==
  AsTuple([i \in 1..ObjectIdHexLen |->
             IF i = ObjectIdHexLen THEN n % 16
             ELSE IF i = ObjectIdHexLen - 1 THEN (n \div 16) % 16 ELSE 0])

\* ObjectId.prototype.toString: 24 lower-case hex characters
OidToString(k) == AsTuple([i \in 1..Len(k) |-> HexChars[k[i] + 1]])

\* Types.ObjectId.isValid on a string: 24 hex characters
ObjectIdIsValid(str) ==
  /\ Len(str) = ObjectIdHexLen
  /\ \A i \in 1..Len(str) : IsHexChar(str[i])

\* new Types.ObjectId(str) for a valid str
ObjectIdFromString(str) == AsTuple([i \in 1..Len(str) |-> HexVal(str[i])])

\* byte-wise order of two keys
RECURSIVE OidLess(_, _)
OidLess(a, b) ==
  IF a = <<>> \/ b = <<>> THEN FALSE
  ELSE IF Head(a) # Head(b) THEN Head(a) < Head(b)
  ELSE OidLess(Tail(a), Tail(b))

\* ---------------------------------------------------- regular expressions
\* A pattern is a sequence of literal characters, "\\s*" (a possibly empty
\* run of white space) and "\\s+" (a non-empty run); literals are compared
\* ignoring case.  No literal of the patterns in use is white space, so the
\* greedy runs never backtrack.
RECURSIVE SkipSpaces(_, _)
SkipSpaces(s, i) ==
  IF i <= Len(s) /\ IsSpace(s[i]) THEN SkipSpaces(s, i + 1) ELSE i

\* index just after a match of pat that starts at i, 0 when there is none
RECURSIVE MatchEnd(_, _, _)
MatchEnd(s, i, pat) ==
  IF pat = <<>> THEN i
  ELSE IF Head(pat) = "\\s*" THEN MatchEnd(s, SkipSpaces(s, i), Tail(pat))
  ELSE IF Head(pat) = "\\s+" THEN
    IF i <= Len(s) /\ IsSpace(s[i])
    THEN MatchEnd(s, SkipSpaces(s, i), Tail(pat)) ELSE 0
  ELSE IF i <= Len(s) /\ UpperChar(s[i]) = UpperChar(Head(pat))
    THEN MatchEnd(s, i + 1, Tail(pat)) ELSE 0

\* String.prototype.split(regexp)
RECURSIVE SplitFrom(_, _, _, _)
SplitFrom(s, start, p, pat) ==
  IF p > Len(s) THEN << SubSeq(s, start, Len(s)) >>
  ELSE LET e == MatchEnd(s, p, pat) IN
    IF e # 0 THEN << SubSeq(s, start, p - 1) >> \o SplitFrom(s, e, e, pat)
    ELSE SplitFrom(s, start, p + 1, pat)

Split(s, pat) == SplitFrom(s, 1, 1, pat)

\* s.replace(/^pat/, '')
StripPrefix(s, pat) ==
  TheOne({IF e # 0 THEN SubSeq(s, e, Len(s)) ELSE s : e \in {MatchEnd(s, 1, pat)}})

\* s.replace(/pat$/, '')
StripSuffix(s, pat) ==
  LET starts == {p \in 1..Len(s) : MatchEnd(s, p, pat) = Len(s) + 1} IN
  IF starts = {} THEN s
  ELSE SubSeq(s, 1, (CHOOSE p \in starts : \A q \in starts : p <= q) - 1)

\* parseFloat on a string of the characters in use: leading white space is
\* skipped, then an optional sign and the longest run of digits are read;
\* None (NaN) when that run is empty or the argument is undefined (given
\* here as the empty string)
RECURSIVE DigitPrefix(_)
DigitPrefix(s) ==
  IF s # <<>> /\ IsDigit(Head(s)) THEN <<Head(s)>> \o DigitPrefix(Tail(s))
  ELSE <<>>

RECURSIVE DecimalValue(_)
DecimalValue(ds) ==
  IF ds = <<>> THEN 0
  ELSE 10 * DecimalValue(SubSeq(ds, 1, Len(ds) - 1)) + DigitVal(ds[Len(ds)])

IsSign(c) == c = "-" \/ c = "+"

ParseFloat(s) ==
  LET t == TrimLeft(s)
      signed == t # <<>> /\ IsSign(Head(t))
      ds == DigitPrefix(IF signed THEN Tail(t) ELSE t)
  IN IF ds = <<>> THEN None
     ELSE IF signed /\ Head(t) = "-" THEN Some(0 - DecimalValue(ds))
     ELSE Some(DecimalValue(ds))

\* -------------------------------------------------------------- WKT parser
\* variant: the pair read as [second number, first number]
ParsePair_Swapped(pair) ==
  TheOne({
    LET lon == ParseFloat(parts[1])
        lat == ParseFloat(IF Len(parts) >= 2 THEN parts[2] ELSE <<>>)
    IN IF lon = None \/ lat = None THEN [ok |-> FALSE, pt |-> <<>>]
       ELSE [ok |-> TRUE, pt |-> <<lat[1], lon[1]>>] :
    parts \in {Split(Trim(pair), <<"\\s+">>)}})

\* one "lon lat" pair: [ok, pt]
ParsePair(pair) ==
  TheOne({
    LET lon == ParseFloat(parts[1])
        lat == ParseFloat(IF Len(parts) >= 2 THEN parts[2] ELSE <<>>)
    IN IF lon = None \/ lat = None THEN [ok |-> FALSE, pt |-> <<>>]
       ELSE [ok |-> TRUE, pt |-> <<lon[1], lat[1]>>] :
    parts \in {Split(Trim(pair), <<"\\s+">>)}})

\* parseCoordinates: [ok, pts]; not ok when some pair throws
ParseCoordinates(coordsStr) ==
  TheOne({
    TheOne({[ok |-> \A i \in 1..Len(parsed) : parsed[i].ok,
             pts |-> AsTuple([i \in 1..Len(parsed) |-> parsed[i].pt])] :
            parsed \in {AsTuple([i \in 1..Len(pairs) |-> ParsePair(pairs[i])])}}) :
    pairs \in {Split(coordsStr, <<"\\s*", ",", "\\s*">>)}})

SplitRings(ringsStr) == Split(ringsStr, <<")", "\\s*", ",", "\\s*", "(">>)

\* the rings of one polygon body: [ok, rings]
ParseRings(polyStr) ==
  TheOne({
    TheOne({[ok |-> \A i \in 1..Len(parsed) : parsed[i].ok,
             rings |-> AsTuple([i \in 1..Len(parsed) |-> parsed[i].pts])] :
            parsed \in {AsTuple([i \in 1..Len(ringParts) |->
                                   ParseCoordinates(ringParts[i])])}}) :
    ringParts \in {SplitRings(polyStr)}})

ParseFailure == [ok |-> FALSE, type |-> "", coordinates |-> <<>>]

\* the body of a POLYGON text, its keyword and outer parentheses removed
PolygonBody(trimmed) ==
  StripSuffix(StripPrefix(trimmed, <<"\\s*", "POLYGON", "\\s*", "(", "(">>),
              <<")", ")", "\\s*">>)

\* the body of a MULTIPOLYGON text
MultiPolygonBody(trimmed) ==
  StripSuffix(
    StripPrefix(trimmed, <<"\\s*", "MULTIPOLYGON", "\\s*", "(", "(", "(">>),
    <<")", ")", ")", "\\s*">>)

\* the POLYGON branch of parseWktRegion
ParsePolygon(trimmed) ==
  TheOne({IF r.ok THEN [ok |-> TRUE, type |-> "Polygon", coordinates |-> r.rings]
          ELSE ParseFailure :
          r \in {ParseRings(PolygonBody(trimmed))}})

\* the MULTIPOLYGON branch of parseWktRegion
ParseMultiPolygon(trimmed) ==
  TheOne({
    TheOne({IF \A i \in 1..Len(parsed) : parsed[i].ok
            THEN [ok |-> TRUE, type |-> "MultiPolygon",
                  coordinates |->
                    AsTuple([i \in 1..Len(parsed) |-> parsed[i].rings])]
            ELSE ParseFailure :
            parsed \in {AsTuple([i \in 1..Len(polygonParts) |->
                                   ParseRings(polygonParts[i])])}}) :
    polygonParts \in {Split(MultiPolygonBody(trimmed),
                            <<")", ")", "\\s*", ",", "\\s*", "(", "(">>)}})

\* variant: every text that is not a MULTIPOLYGON is read as a POLYGON
ParseWktRegion_AnyKeyword(wkt) ==
  TheOne({IF StartsWith(ToUpperCase(trimmed), <<"MULTIPOLYGON">>)
            THEN ParseMultiPolygon(trimmed)
          ELSE ParsePolygon(trimmed) :
          trimmed \in {Trim(wkt)}})

\* parseWktRegion: [ok, type, coordinates]; not ok when the parser throws
ParseWktRegion(wkt) ==
  TheOne({IF StartsWith(ToUpperCase(trimmed), <<"POLYGON">>)
            THEN ParsePolygon(trimmed)
          ELSE IF StartsWith(ToUpperCase(trimmed), <<"MULTIPOLYGON">>)
            THEN ParseMultiPolygon(trimmed)
          ELSE ParseFailure :
          trimmed \in {Trim(wkt)}})

\* ------------------------------------------------------------- the dataset
\* Sample field values, one column per record of the universe.
SampleStreet ==
  << <<"a", "b">>, <<"a", "b", "c">>, <<"c", "a", "b">>, <<"A", "B">>, <<"d", "d">> >>

SampleNumber == << <<"1">>, <<"2">>, <<"3">>, <<>>, <<"1">> >>

SamplePostcode == << <<>>, <<>>, <<"b", "1">>, <<>>, <<"1", "2">> >>

SampleCity ==
  << <<"c", "d">>, <<"c", "d">>, <<"d", "d">>, <<"A", "b">>, <<"a", "b">> >>

SampleDistrict == << <<>>, <<"e", "f">>, <<>>, <<"E", "f">>, <<>> >>

SampleRegion == << <<>>, <<>>, <<"f", "e">>, <<>>, <<"f", "e">> >>

SamplePoint == << <<1, 1>>, <<3, 3>>, <<1, 1>>, <<3, 1>>, <<1, 3>> >>

\* record i of the universe; keys are assigned in insertion order
Rec(i) ==
  [_id |-> Oid(2 * i),
   pt |-> SamplePoint[i],
   street |-> SampleStreet[i],
   number |-> SampleNumber[i],
   postcode |-> SamplePostcode[i],
   city |-> SampleCity[i],
   district |-> SampleDistrict[i],
   region |-> SampleRegion[i]]

Universe == {Rec(i) : i \in 1..NumRecs}

\* --------------------------------------------------------------- the store
\* ascending order of record keys
RECURSIVE SortById(_)
SortById(rs) ==
  IF rs = {} THEN <<>>
  ELSE LET m == CHOOSE r \in rs : \A q \in rs : q = r \/ OidLess(r._id, q._id)
       IN <<m>> \o SortById(rs \ {m})

\* the store accepts a ring only when it is closed and has four points
RingValid(ring) == Len(ring) >= 4 /\ ring[1] = ring[Len(ring)]

GeometryValid(g) ==
  IF g.type = "Polygon"
  THEN \A i \in 1..Len(g.coordinates) : RingValid(g.coordinates[i])
  ELSE \A i \in 1..Len(g.coordinates) :
         \A j \in 1..Len(g.coordinates[i]) : RingValid(g.coordinates[i][j])

\* point strictly inside the box spanned by a ring (the sample regions are
\* axis-aligned boxes, the sample points lie on no edge)
InRing(pt, ring) ==
  /\ \E i \in 1..Len(ring) : ring[i][1] < pt[1]
  /\ \E i \in 1..Len(ring) : ring[i][1] > pt[1]
  /\ \E i \in 1..Len(ring) : ring[i][2] < pt[2]
  /\ \E i \in 1..Len(ring) : ring[i][2] > pt[2]

\* $geoWithin: the exterior ring of the polygon, or of one of the polygons
GeoWithin(pt, g) ==
  IF g.type = "Polygon" THEN InRing(pt, g.coordinates[1])
  ELSE \E i \in 1..Len(g.coordinates) : InRing(pt, g.coordinates[i][1])

\* cursor.limit(n) of the store: 0 is no limit, a negative n is abs(n)
StoreLimit(docs, n) == IF n = 0 THEN docs ELSE Take(docs, Abs(n))

\* find(query).sort({_id: 1}).limit(n) for a containment query
\* [region, gt, limit]: [ok, docs]
FindWithin(st, query) ==
  IF ~GeometryValid(query.region) THEN [ok |-> FALSE, docs |-> <<>>]
  ELSE LET matching ==
             {r \in st : /\ GeoWithin(r.pt, query.region)
                         /\ (IsSome(query.gt) => OidLess(query.gt[1], r._id))}
       IN [ok |-> TRUE, docs |-> StoreLimit(SortById(matching), query.limit)]

\* ----------------------------------------------------- containment handler
\* a ?? b ?? c on optional numbers
Coalesce(a, b, c) == IF IsSome(a) THEN a[1] ELSE IF IsSome(b) THEN b[1] ELSE c

BatchSizeOf(body) == Coalesce(body.batchSize, body.limit, DefaultBatchSize)

\* { ...d, _id: d._id.toString() }
ToFeature(d) == [d EXCEPT !._id = OidToString(d._id)]

\* variant: a page at least as long as the batch size
HasMoreOf_AtLeast(docs, batchSize) == Len(docs) >= batchSize

HasMoreOf(docs, batchSize) == Len(docs) = batchSize

\* variant: the key of the first record of the page
NextCursorOf_First(docs) ==
  IF Len(docs) > 0 THEN Some(OidToString(docs[1]._id)) ELSE None

NextCursorOf(docs) ==
  IF Len(docs) > 0 THEN Some(OidToString(docs[Len(docs)]._id)) ELSE None

\* JavaScript truthiness of an optional string: absent and "" are falsy
Truthy(o) == IsSome(o) /\ o[1] # <<>>

NoResp ==
  [kind |-> "none", ok |-> FALSE, error |-> <<>>, body |-> <<>>, fetched |-> <<>>,
   docs |-> <<>>, features |-> <<>>, nextCursor |-> None, hasMore |-> FALSE]

WithinError(body, msg, fetched) ==
  [kind |-> "within", ok |-> FALSE,
   error |-> <<"Failed to fetch addresses within region", msg>>,
   body |-> body, fetched |-> fetched, docs |-> <<>>,
   features |-> <<>>, nextCursor |-> None, hasMore |-> FALSE]

\* lines 385-397: the page built from the fetched docs
WithinPage(body, query, docs, batchSize) ==
  [kind |-> "within", ok |-> TRUE, error |-> <<>>, body |-> body,
   fetched |-> <<query>>, docs |-> docs,
   features |-> AsTuple([i \in 1..Len(docs) |-> ToFeature(docs[i])]),
   nextCursor |-> NextCursorOf(docs),
   hasMore |-> HasMoreOf(docs, batchSize)]

\* lines 363-383: the query for a parsed region
WithinQuery(body, region) ==
  [region |-> [type |-> region.type, coordinates |-> region.coordinates],
   gt |-> IF Truthy(body.cursor)
          THEN Some(ObjectIdFromString(body.cursor[1])) ELSE None,
   limit |-> BatchSizeOf(body)]

\* lines 363-397: the fetch for a parsed region and the page
WithinFetch(body, region, st, storeFails) ==
  TheOne({
    TheOne({IF storeFails \/ ~found.ok
              THEN WithinError(body, "store error", <<query>>)
            ELSE WithinPage(body, query, found.docs, BatchSizeOf(body)) :
            found \in {FindWithin(st, query)}}) :
    query \in {WithinQuery(body, region)}})

\* lines 353-355: the parsed region of the body, a failure when there is none
RegionOf(body) ==
  IF Truthy(body.searchRegion)
  THEN ParseWktRegion(body.searchRegion[1]) ELSE ParseFailure

\* getAddressesWithinPolygon(body) against dataset st; storeFails says
\* whether the store fetch, if issued, fails
WithinPolygonResult(body, st, storeFails) ==
  TheOne({
    IF Truthy(body.searchRegion) /\ ~region.ok
      THEN WithinError(body, "Invalid WKT", <<>>)
    ELSE IF ~region.ok
      THEN WithinError(body, "searchRegion (WKT POLYGON/MULTIPOLYGON) must be provided.", <<>>)
    ELSE IF Truthy(body.cursor) /\ ~ObjectIdIsValid(body.cursor[1])
      THEN WithinError(body, "Invalid cursor value: must be a valid ObjectId string", <<>>)
    ELSE WithinFetch(body, region, st, storeFails) :
    region \in {RegionOf(body)}})

\* ------------------------------------------------------ exact rationals
RECURSIVE GCD(_, _)
GCD(a, b) == IF b = 0 THEN a ELSE GCD(b, a % b)

Rat(n, d) == LET g == GCD(n, d) IN [n |-> n \div g, d |-> d \div g]

RLeq(a, b) == a.n * b.d <= b.n * a.d

RMax(a, b) == IF RLeq(a, b) THEN b ELSE a

RMin(a, b) == IF RLeq(a, b) THEN a ELSE b

RAdd(a, b) == Rat(a.n * b.d + b.n * a.d, a.d * b.d)

\* a - b, for b <= a
RSub(a, b) == Rat(a.n * b.d - b.n * a.d, a.d * b.d)

RMul(a, b) == Rat(a.n * b.n, a.d * b.d)

\* ------------------------------------------------------- string similarity
\* s.replace(/\s+/g, '')
RECURSIVE RemoveSpaces(_)
RemoveSpaces(s) ==
  IF s = <<>> THEN <<>>
  ELSE IF IsSpace(Head(s)) THEN RemoveSpaces(Tail(s))
  ELSE <<Head(s)>> \o RemoveSpaces(Tail(s))

Bigrams(s) == [i \in 1..(Len(s) - 1) |-> <<s[i], s[i + 1]>>]

\* the sequence without its first occurrence of x
RECURSIVE RemoveFirst(_, _)
RemoveFirst(bs, x) ==
  IF bs = <<>> THEN <<>>
  ELSE IF Head(bs) = x THEN Tail(bs)
  ELSE <<Head(bs)>> \o RemoveFirst(Tail(bs), x)

\* bigrams of the second string matched, each against a not yet matched
\* bigram of the first
RECURSIVE IntersectionSize(_, _)
IntersectionSize(firstBigrams, secondBigrams) ==
  IF secondBigrams = <<>> THEN 0
  ELSE LET b == Head(secondBigrams) IN
    IF \E i \in 1..Len(firstBigrams) : firstBigrams[i] = b
    THEN 1 + IntersectionSize(RemoveFirst(firstBigrams, b), Tail(secondBigrams))
    ELSE IntersectionSize(firstBigrams, Tail(secondBigrams))

\* stringSimilarity.compareTwoStrings: the Dice coefficient of the bigrams
CompareTwoStrings(a, b) ==
  LET first == RemoveSpaces(a)
      second == RemoveSpaces(b)
  IN IF first = second THEN Rat(1, 1)
     ELSE IF Len(first) < 2 \/ Len(second) < 2 THEN Rat(0, 1)
     ELSE Rat(2 * IntersectionSize(Bigrams(first), Bigrams(second)),
              Len(first) + Len(second) - 2)

\* ---------------------------------------------------------- search handler
IsAlnum(c) == IsDigit(c) \/ LowerChar(c) \in {"a", "b", "c", "d", "e", "f", "x"}

\* s.split(/[^a-z0-9]+/i).map(trim).filter(non-empty): the maximal
\* alphanumeric runs of s
RECURSIVE AlnumPrefix(_)
AlnumPrefix(s) ==
  IF s # <<>> /\ IsAlnum(Head(s)) THEN <<Head(s)>> \o AlnumPrefix(Tail(s))
  ELSE <<>>

RECURSIVE Tokenize(_)
Tokenize(s) ==
  IF s = <<>> THEN <<>>
  ELSE IF ~IsAlnum(Head(s)) THEN Tokenize(Tail(s))
  ELSE LET t == AlnumPrefix(s) IN <<t>> \o Tokenize(Drop(s, Len(t)))

\* the four searched fields of a record, in the order of `fields`
SearchFields(r) == <<r.street, r.number, r.postcode, r.city>>

\* variant: one matching token is enough ($or over the tokens)
MatchesTokens_AnyToken(r, tokens) ==
  tokens = <<>> \/
  \E i \in 1..Len(tokens) :
    \E j \in 1..4 : Contains(ToLowerCase(SearchFields(r)[j]), tokens[i])

\* { $and: tokens.map(t => { $or: fields.map(f => ({ [f]: /t/i })) }) };
\* with no token the predicate { $or: [] } is empty and selects every record
MatchesTokens(r, tokens) ==
  \A i \in 1..Len(tokens) :
    \E j \in 1..4 : Contains(ToLowerCase(SearchFields(r)[j]), tokens[i])

\* the orders in which the store may return the records of rs (no sort is
\* requested)
Orderings(rs) ==
  {o \in [1..Cardinality(rs) -> rs] :
     \A i, j \in 1..Cardinality(rs) : i # j => o[i] # o[j]}

\* variant: the candidate fetch is not limited
PoolSize_Unlimited(limit) == 0

PoolSize(limit) == Max2(limit * 2, MinCandidatePool)

\* [street, number, postcode, city].filter(Boolean).join(' ')
RECURSIVE JoinNonEmpty(_)
JoinNonEmpty(parts) ==
  IF parts = <<>> THEN <<>>
  ELSE LET rest == JoinNonEmpty(Tail(parts)) IN
    IF Head(parts) = <<>> THEN rest
    ELSE IF rest = <<>> THEN Head(parts)
    ELSE Head(parts) \o <<" ">> \o rest

FieldWeights == <<Rat(10, 10), Rat(5, 10), Rat(8, 10), Rat(9, 10)>>

PrefixBoost == Rat(15, 100)

\* variant: the boosted score is not capped at 1
ScoreOf_NoCap(addr, normalizedSearch) ==
  LET fs == [j \in 1..4 |-> ToLowerCase(SearchFields(addr)[j])]
      combined == ToLowerCase(JoinNonEmpty(fs))
      combinedScore == CompareTwoStrings(normalizedSearch, combined)
      fieldScores ==
        [j \in 1..4 |-> RMul(CompareTwoStrings(normalizedSearch, fs[j]), FieldWeights[j])]
      maxFieldScore ==
        RMax(RMax(fieldScores[1], fieldScores[2]), RMax(fieldScores[3], fieldScores[4]))
      startsWith == \E j \in 1..4 : StartsWith(fs[j], normalizedSearch)
      prefixBoost == IF startsWith THEN PrefixBoost ELSE Rat(0, 1)
  IN RAdd(RMax(combinedScore, maxFieldScore), prefixBoost)

\* variant: the score read as a distance, 1 minus the similarity
ScoreOf_AsDistance(addr, normalizedSearch) ==
  LET fs == [j \in 1..4 |-> ToLowerCase(SearchFields(addr)[j])]
      combined == ToLowerCase(JoinNonEmpty(fs))
      combinedScore == CompareTwoStrings(normalizedSearch, combined)
      fieldScores ==
        [j \in 1..4 |-> RMul(CompareTwoStrings(normalizedSearch, fs[j]), FieldWeights[j])]
      maxFieldScore ==
        RMax(RMax(fieldScores[1], fieldScores[2]), RMax(fieldScores[3], fieldScores[4]))
      startsWith == \E j \in 1..4 : StartsWith(fs[j], normalizedSearch)
      prefixBoost == IF startsWith THEN PrefixBoost ELSE Rat(0, 1)
  IN RSub(Rat(1, 1),
          RMin(Rat(1, 1), RAdd(RMax(combinedScore, maxFieldScore), prefixBoost)))

\* the score of one candidate for the normalized query
ScoreOf(addr, normalizedSearch) ==
  LET fs == [j \in 1..4 |-> ToLowerCase(SearchFields(addr)[j])]
      combined == ToLowerCase(JoinNonEmpty(fs))
      combinedScore == CompareTwoStrings(normalizedSearch, combined)
      fieldScores ==
        [j \in 1..4 |-> RMul(CompareTwoStrings(normalizedSearch, fs[j]), FieldWeights[j])]
      maxFieldScore ==
        RMax(RMax(fieldScores[1], fieldScores[2]), RMax(fieldScores[3], fieldScores[4]))
      startsWith == \E j \in 1..4 : StartsWith(fs[j], normalizedSearch)
      prefixBoost == IF startsWith THEN PrefixBoost ELSE Rat(0, 1)
  IN RMin(Rat(1, 1), RAdd(RMax(combinedScore, maxFieldScore), prefixBoost))

Scored(addr, normalizedSearch) ==
  [_id |-> addr._id, pt |-> addr.pt, street |-> addr.street,
   number |-> addr.number, postcode |-> addr.postcode, city |-> addr.city,
   district |-> addr.district, region |-> addr.region,
   score |-> ScoreOf(addr, normalizedSearch)]

\* variant: an insertion that puts a candidate before those of equal score
RECURSIVE InsertByScore_BeforeEqual(_, _)
InsertByScore_BeforeEqual(sorted, x) ==
  IF sorted = <<>> THEN <<x>>
  ELSE IF RLeq(Head(sorted).score, x.score) THEN <<x>> \o sorted
  ELSE <<Head(sorted)>> \o InsertByScore_BeforeEqual(Tail(sorted), x)

\* Array.prototype.sort((a, b) => b.score - a.score): stable, descending
RECURSIVE InsertByScore(_, _)
InsertByScore(sorted, x) ==
  IF sorted = <<>> THEN <<x>>
  ELSE IF RLeq(x.score, Head(sorted).score)
    THEN <<Head(sorted)>> \o InsertByScore(Tail(sorted), x)
  ELSE <<x>> \o sorted

RECURSIVE SortByScore(_)
SortByScore(xs) ==
  IF xs = <<>> THEN <<>>
  ELSE InsertByScore(SortByScore(SubSeq(xs, 1, Len(xs) - 1)), xs[Len(xs)])

\* Array.prototype.slice(0, end)
Slice0(xs, end) ==
  SubSeq(xs, 1, IF end < 0 THEN Max2(Len(xs) + end, 0) ELSE Min2(end, Len(xs)))

Threshold == Rat(75, 100)

BandFloor == Rat(70, 100)

BandWidth == Rat(8, 100)

\* Math.max(0.7, bestScore - 0.08), for a best score of at least 0.75
BandOf(bestScore) == RMax(BandFloor, RSub(bestScore, BandWidth))

RECURSIVE FilterAtLeast(_, _)
FilterAtLeast(xs, bound) ==
  IF xs = <<>> THEN <<>>
  ELSE IF RLeq(bound, Head(xs).score)
    THEN <<Head(xs)>> \o FilterAtLeast(Tail(xs), bound)
  ELSE FilterAtLeast(Tail(xs), bound)

\* steps 3 and 4 of getAddresses
CloseMatches(scoredList, limit) ==
  LET sorted == SortByScore(scoredList)
      bestScore == sorted[1].score
  IN IF RLeq(Threshold, bestScore)
     THEN Slice0(FilterAtLeast(sorted, BandOf(bestScore)), limit)
     ELSE Slice0(sorted, limit)

SearchLimitOf(body) == IF IsSome(body.limit) THEN body.limit[1] ELSE DefaultSearchLimit

\* variant: a failed fetch is answered with an empty collection
SearchResp_EmptyOnFailure(body, ok, fetched, docs, features) ==
  [kind |-> "search", ok |-> TRUE, error |-> <<>>,
   body |-> body, fetched |-> fetched, docs |-> docs,
   features |-> features, nextCursor |-> None, hasMore |-> FALSE]

SearchResp(body, ok, fetched, docs, features) ==
  [kind |-> "search", ok |-> ok,
   error |-> IF ok THEN <<>> ELSE <<"Failed to fetch map addresses", "store error">>,
   body |-> body, fetched |-> fetched, docs |-> docs,
   features |-> features, nextCursor |-> None, hasMore |-> FALSE]

\* the records the candidate fetch may return, in each possible order
CandidateLists(st, tokens, limit) ==
  {StoreLimit(o, PoolSize(limit)) :
     o \in Orderings({r \in st : MatchesTokens(r, tokens)})}

\* variant: the query is not trimmed before the test
IsBlankSearch_NoTrim(searchStr) == ~Truthy(searchStr)

\* !searchStr || !searchStr.trim()
IsBlankSearch(searchStr) == ~Truthy(searchStr) \/ Trim(searchStr[1]) = <<>>

\* getAddresses(searchQuery, limit) given the outcome of the candidate fetch
GetAddressesResult(body, candidates, storeFails) ==
  LET searchStr == body.searchQuery
      limit == SearchLimitOf(body)
  IN
  IF IsBlankSearch(searchStr)
    THEN SearchResp(body, TRUE, <<>>, <<>>, <<>>)
  ELSE
    LET normalizedSearch == ToLowerCase(Trim(searchStr[1]))
        tokens == Tokenize(normalizedSearch)
        query == [tokens |-> tokens, limit |-> PoolSize(limit)]
    IN IF storeFails THEN SearchResp(body, FALSE, <<query>>, <<>>, <<>>)
       ELSE IF Len(candidates) = 0
         THEN SearchResp(body, TRUE, <<query>>, <<>>, <<>>)
       ELSE LET scored == [i \in 1..Len(candidates) |->
                             Scored(candidates[i], normalizedSearch)]
                closeMatches == CloseMatches(scored, limit)
            IN SearchResp(body, TRUE, <<query>>, candidates,
                 [i \in 1..Len(closeMatches) |-> ToFeature(closeMatches[i])])

\* ------------------------------------------------------- proximity handler
\* the sample points lie on a grid of squares of this many meters
GridUnitMeters == 400

\* $near with $maxDistance: the record is at most maxDistance meters away
\* (no sample point lies at exactly a sample distance)
WithinDistance(pt, point, maxDistance) ==
  LET dx == pt[1] - point[1]
      dy == pt[2] - point[2]
  IN /\ maxDistance >= 0
     /\ (dx * dx + dy * dy) * GridUnitMeters * GridUnitMeters
          <= maxDistance * maxDistance

DistanceSquared(pt, point) ==
  (pt[1] - point[1]) * (pt[1] - point[1]) + (pt[2] - point[2]) * (pt[2] - point[2])

\* new RegExp(source, 'i') for sources made of literal characters, the
\* wildcard "." and parentheses; a source of this kind compiles unless it
\* holds a parenthesis, which is then unmatched (SyntaxError)
RegExpCompiles(source) ==
  \A i \in 1..Len(source) : source[i] \notin {"(", ")"}

\* regexp.test(s) for a compiled source with the flag i: the source matches
\* at some offset, "." standing for any character
RegExpTest(source, str) ==
  \E off \in 0..(Len(str) - Len(source)) :
    \A i \in 1..Len(source) :
      source[i] = "." \/ LowerChar(source[i]) = LowerChar(str[off + i])

\* a list filter is active when it is given and not empty
ListActive(f) == IsSome(f) /\ Len(f[1]) > 0

\* { $in: items.map(x => new RegExp(x.toLowerCase(), 'i')) } on a field
MatchesIn(f, field) ==
  ListActive(f) =>
    \E i \in 1..Len(f[1]) : RegExpTest(ToLowerCase(f[1][i]), field)

ListCompiles(f) ==
  ListActive(f) =>
    \A i \in 1..Len(f[1]) : RegExpCompiles(ToLowerCase(f[1][i]))

ListFields == {"city", "street", "postcode", "district", "region"}

\* lines 480-526: every pattern of the filters compiles
FiltersCompile(filters) ==
  IsSome(filters) =>
    /\ \A k \in ListFields : ListCompiles(filters[1][k])
    /\ Truthy(filters[1].number) => RegExpCompiles(filters[1].number[1])

\* lines 480-526: the record satisfies the field conditions of the query
MatchesFilters(r, filters) ==
  IsSome(filters) =>
    /\ \A k \in ListFields : MatchesIn(filters[1][k], r[k])
    /\ Truthy(filters[1].number) => RegExpTest(filters[1].number[1], r.number)

\* a coordinate value standing for Infinity (JSON 1e999), beyond every sample
Infinity == 1000000

\* the request validation is applied to the bodies of the controller
ValidationPipeApplies == TRUE

\* @IsArray() @IsNumber({}, { each: true }) point: an array whose elements
\* are all finite numbers; its length is not constrained
PointValidated(point) ==
  IsSome(point) /\ \A i \in 1..Len(point[1]) : point[1][i] # Infinity

\* the store takes the $geometry of $near only with a finite coordinate pair
PointUsable(point) ==
  /\ IsSome(point)
  /\ Len(point[1]) = 2
  /\ \A i \in 1..Len(point[1]) : point[1][i] # Infinity

MaxDistanceOf(body) ==
  IF IsSome(body.maxDistance) THEN body.maxDistance[1] ELSE DefaultMaxDistance

\* the records the $near query may return: nearest first, records at the
\* same distance in any order
NearLists(st, body) ==
  IF ~PointUsable(body.point) THEN {<<>>}
  ELSE
  {o \in Orderings({r \in st :
                      /\ WithinDistance(r.pt, body.point[1], MaxDistanceOf(body))
                      /\ MatchesFilters(r, body.filters)}) :
     \A i \in 1..(Len(o) - 1) :
       DistanceSquared(o[i].pt, body.point[1])
         <= DistanceSquared(o[i + 1].pt, body.point[1])}

NearResp(body, ok, msg, fetched, docs) ==
  [kind |-> "near", ok |-> ok,
   error |-> IF ok THEN <<>> ELSE <<"Failed to fetch addresses near point", msg>>,
   body |-> body, fetched |-> fetched, docs |-> docs,
   features |-> AsTuple([i \in 1..Len(docs) |-> ToFeature(docs[i])]),
   nextCursor |-> None, hasMore |-> FALSE]

\* getAddressesNearPoint(point, maxDistance, filters) given the outcome of
\* the fetch
NearPointResult(body, docs, storeFails) ==
  IF ~FiltersCompile(body.filters)
    THEN NearResp(body, FALSE, "Invalid regular expression", <<>>, <<>>)
  ELSE IF storeFails \/ ~PointUsable(body.point)
    THEN NearResp(body, FALSE, "store error", <<body>>, <<>>)
  ELSE NearResp(body, TRUE, "", <<body>>, docs)

\* the body did not pass the validation: the controller is not entered
NearRejected(body) ==
  [kind |-> "near", ok |-> FALSE, error |-> <<"Bad Request", "validation">>,
   body |-> body, fetched |-> <<>>, docs |-> <<>>, features |-> <<>>,
   nextCursor |-> None, hasMore |-> FALSE]

\* POST near-point: validation of the body, then the service call
NearPointResponse(body, docs, storeFails) ==
  IF ValidationPipeApplies /\ ~PointValidated(body.point)
    THEN NearRejected(body)
  ELSE NearPointResult(body, docs, storeFails)

\* ------------------------------------------------------------------ inputs
\* POLYGON((x1 y1,x1 y2,x2 y2,x2 y1,x1 y1)) without the keyword
BoxBody(x1, y1, x2, y2) ==
  <<"(", "(", Digits[x1 + 1], " ", Digits[y1 + 1], ",",
    Digits[x1 + 1], " ", Digits[y2 + 1], ",",
    Digits[x2 + 1], " ", Digits[y2 + 1], ",", " ",
    Digits[x2 + 1], " ", Digits[y1 + 1], ",",
    Digits[x1 + 1], " ", Digits[y1 + 1], ")", ")">>

WktBoxA == <<"POLYGON">> \o BoxBody(0, 0, 2, 2)

WktBoxB == <<" ", "polygon", " ">> \o BoxBody(0, 0, 4, 4) \o <<" ">>

WktMulti ==
  <<"MULTIPOLYGON", "(">> \o BoxBody(0, 0, 2, 2) \o <<",">>
    \o BoxBody(2, 2, 4, 4) \o <<")">>

WktOpenRing == <<"POLYGON", "(", "(", "0", " ", "0", ",", "4", " ", "4", ")", ")">>

WktPoint == <<"POINT", "(", "1", " ", "1", ")">>

WktInputs == {WktBoxA, WktBoxB, WktMulti, WktOpenRing, WktPoint, <<>>}

\* optional batchSize / limit values (only checked to be numbers)
OptNumbers == {None} \cup {Some(n) : n \in (0 - 1)..MaxBatch}

NotHex == [i \in 1..ObjectIdHexLen |-> "x"]

CursorInputs ==
  {None, Some(<<>>), Some(NotHex), Some(ToUpperCase(OidToString(Oid(10))))}
    \cup {Some(OidToString(Oid(2 * k))) : k \in 0..NumRecs}

WithinBodies ==
  [searchRegion : {Some(w) : w \in WktInputs}, limit : OptNumbers,
   batchSize : OptNumbers, cursor : CursorInputs]

QueryInputs ==
  {None, Some(<<>>), Some(<<" ">>), Some(<<"-">>), Some(<<"-", " ", "-">>),
   Some(<<"a", "b">>), Some(<<" ", "A", "B", " ">>), Some(<<"b">>),
   Some(<<"c", "d", "-", "a", "b">>), Some(<<"a", "b", " ", "1">>),
   Some(<<"d", "d">>), Some(<<"c", "d">>), Some(<<"e", "f">>)}

SearchBodies == [searchQuery : QueryInputs, limit : OptNumbers]

NoFilters ==
  [city |-> None, street |-> None, postcode |-> None, district |-> None,
   region |-> None, number |-> None]

\* optional filters of a near-point body
FilterInputs ==
  {None, Some(NoFilters),
   Some([NoFilters EXCEPT !.city = Some(<< <<"c", "d">> >>)]),
   Some([NoFilters EXCEPT !.city = Some(<< <<"D", "D">> >>)]),
   Some([NoFilters EXCEPT !.city = Some(<< <<"a", "b">>, <<"d", "d">> >>)]),
   Some([NoFilters EXCEPT !.city = Some(<<>>)]),
   Some([NoFilters EXCEPT !.city = Some(<< <<"c", ".">> >>)]),
   Some([NoFilters EXCEPT !.city = Some(<< <<"(">> >>)]),
   Some([NoFilters EXCEPT !.city = Some(<< <<"c", "d">> >>),
                          !.street = Some(<< <<"b", "c">> >>)]),
   Some([NoFilters EXCEPT !.postcode = Some(<< <<"B", "1">> >>)]),
   Some([NoFilters EXCEPT !.district = Some(<< <<"e", "f">> >>)]),
   Some([NoFilters EXCEPT !.region = Some(<< <<"f", "e">> >>)]),
   Some([NoFilters EXCEPT !.number = Some(<<"1">>)]),
   Some([NoFilters EXCEPT !.number = Some(<<>>)])}

\* the point of a near-point body: absent, or an array of numbers
PointInputs ==
  {None, Some(<<>>), Some(<<1>>), Some(<<1, 1>>), Some(<<3, 3>>),
   Some(<<Infinity, 1>>)}

NearBodies ==
  [point : PointInputs,
   maxDistance : {None, Some(0), Some(600), Some(1500)},
   filters : FilterInputs]

\* ----------------------------------------------------------- state machine
VARIABLES
  store,   \* the address collection
  resp,    \* the response of the request being answered, NoResp when idle
  chain,   \* the pages a client has collected by following nextCursor
  probe,   \* the last application of a pure function of the service
  storeFailed, \* whether the store failed the fetch of the request in resp
  inflight \* the requests being handled concurrently, one per slot

vars == <<store, resp, chain, probe, storeFailed, inflight>>

NoProbe == [kind |-> "none"]

NoChain ==
  [live |-> FALSE, body |-> <<>>, pages |-> <<>>, nextCursor |-> None,
   hasMore |-> FALSE]

\* the collection holds any of the records of the universe
Init ==
  /\ store \in SUBSET Universe
  /\ resp = NoResp
  /\ chain = NoChain
  /\ probe = NoProbe
  /\ storeFailed = FALSE
  /\ inflight = <<>>

\* POST within-polygon with an arbitrary body; a successful request without
\* a cursor is the first page of a chain
GetAddressesWithinPolygon ==
  /\ resp.kind = "none"
  /\ \E body \in WithinBodies, storeFails \in BOOLEAN :
       /\ resp' = WithinPolygonResult(body, store, storeFails)
       /\ storeFailed' = storeFails
       /\ chain' = IF ~IsSome(body.cursor) /\ resp'.ok
                   THEN [live |-> TRUE, body |-> body, pages |-> <<resp'.features>>,
                         nextCursor |-> resp'.nextCursor, hasMore |-> resp'.hasMore]
                   ELSE NoChain
  /\ UNCHANGED <<store, probe, inflight>>

\* the client repeats the request with cursor = the previous nextCursor
FollowCursor ==
  /\ chain.live
  /\ chain.hasMore
  /\ Len(chain.pages) < MaxPages
  /\ \E storeFails \in BOOLEAN :
       /\ resp' = WithinPolygonResult([chain.body EXCEPT !.cursor = chain.nextCursor],
                                      store, storeFails)
       /\ storeFailed' = storeFails
       /\ chain' = IF resp'.ok
                   THEN [chain EXCEPT !.pages = Append(@, resp'.features),
                                      !.nextCursor = resp'.nextCursor,
                                      !.hasMore = resp'.hasMore]
                   ELSE NoChain
  /\ UNCHANGED <<store, probe, inflight>>

\* the tokens the candidate fetch of a search body selects by
TokensOf(body) ==
  IF Truthy(body.searchQuery)
  THEN Tokenize(ToLowerCase(Trim(body.searchQuery[1]))) ELSE <<>>

\* GET addresses; candidates is what the store returns for the candidate fetch
GetAddresses ==
  /\ resp.kind = "none"
  /\ \E body \in SearchBodies, storeFails \in BOOLEAN :
       \E candidates \in CandidateLists(store, TokensOf(body), SearchLimitOf(body)) :
         /\ resp' = GetAddressesResult(body, candidates, storeFails)
         /\ storeFailed' = storeFails
  /\ chain' = NoChain
  /\ UNCHANGED <<store, probe, inflight>>

\* POST near-point; docs is what the store returns for the $near query
GetAddressesNearPoint ==
  /\ resp.kind = "none"
  /\ \E body \in NearBodies, storeFails \in BOOLEAN :
       \E docs \in NearLists(store, body) :
         /\ resp' = NearPointResponse(body, docs, storeFails)
         /\ storeFailed' = storeFails
  /\ chain' = NoChain
  /\ UNCHANGED <<store, probe, inflight>>

\* the response is handed to the transport layer; the client starts over
Respond ==
  /\ resp.kind # "none"
  /\ resp' = NoResp
  /\ chain' = NoChain
  /\ storeFailed' = FALSE
  /\ UNCHANGED <<store, probe, inflight>>

Next ==
  \/ GetAddressesWithinPolygon
  \/ FollowCursor
  \/ GetAddresses
  \/ GetAddressesNearPoint
  \/ Respond

Spec == Init /\ [][Next]_vars

\* ------------------------------------------------------ concurrent requests
\* Each handler awaits the store once; a request is begun, suspended at its
\* fetch and resumed with the store's answer, interleaved with the others.
NoRequest == [op |-> "none", body |-> <<>>]

IdleSlot == [pc |-> "idle", req |-> NoRequest, dataset |-> {}, result |-> NoResp]

SearchBody(q, limit) == [searchQuery |-> q, limit |-> limit]

WithinBody(wkt, batchSize, cursor) ==
  [searchRegion |-> Some(wkt), limit |-> None, batchSize |-> batchSize,
   cursor |-> cursor]

NearBody(point, maxDistance, filters) ==
  [point |-> Some(point), maxDistance |-> maxDistance, filters |-> filters]

ConcurrentRequests ==
  {[op |-> "search", body |-> SearchBody(Some(<<"a", "b", "c">>), None)],
   [op |-> "search", body |-> SearchBody(Some(<<" ">>), None)],
   [op |-> "within", body |-> WithinBody(WktBoxB, Some(1), None)],
   [op |-> "within", body |-> WithinBody(WktPoint, None, None)],
   [op |-> "near", body |-> NearBody(<<1, 1>>, None,
             Some([NoFilters EXCEPT !.city = Some(<< <<"c", "d">> >>)]))]}

\* the results the handler of a request can give over dataset st, one for
\* each answer of the store
ResultsOf(req, st) ==
  IF req.op = "search"
    THEN {GetAddressesResult(req.body, c, f) :
            c \in CandidateLists(st, TokensOf(req.body), SearchLimitOf(req.body)),
            f \in BOOLEAN}
  ELSE IF req.op = "within"
    THEN {WithinPolygonResult(req.body, st, f) : f \in BOOLEAN}
  ELSE {NearPointResponse(req.body, c, f) :
          c \in NearLists(st, req.body), f \in BOOLEAN}

\* the handler of the request reaches its store fetch
ReachesFetch(req) ==
  IF req.op = "search" THEN ~IsBlankSearch(req.body.searchQuery)
  ELSE IF req.op = "within"
    THEN /\ RegionOf(req.body).ok
         /\ ~(Truthy(req.body.cursor) /\ ~ObjectIdIsValid(req.body.cursor[1]))
  ELSE /\ ~(ValidationPipeApplies /\ ~PointValidated(req.body.point))
       /\ FiltersCompile(req.body.filters)

\* variant: the request is kept in a field of the service, which a later
\* call (a higher slot) overwrites
ContextOf_SharedField(slots, i) ==
  slots[CHOOSE j \in 1..Len(slots) :
          /\ slots[j].pc # "idle"
          /\ \A k \in 1..Len(slots) : slots[k].pc # "idle" => k <= j].req

\* the request a resumed call works on: the parameters and locals of its
\* own invocation
ContextOf(slots, i) == slots[i].req

InitConcurrent ==
  /\ store \in SUBSET Universe
  /\ resp = NoResp
  /\ chain = NoChain
  /\ probe = NoProbe
  /\ storeFailed = FALSE
  /\ inflight = [i \in 1..MaxInflight |-> IdleSlot]

\* a request arrives: its handler runs up to the store fetch, or to its end
\* when it returns before fetching
Begin ==
  \E i \in 1..MaxInflight, req \in ConcurrentRequests :
    /\ inflight[i].pc = "idle"
    /\ inflight' =
         [inflight EXCEPT ![i] =
            IF ReachesFetch(req)
            THEN [pc |-> "awaiting", req |-> req, dataset |-> store,
                  result |-> NoResp]
            ELSE [pc |-> "done", req |-> req, dataset |-> store,
                  result |-> CHOOSE r \in ResultsOf(req, store) : TRUE]]
    /\ UNCHANGED <<store, resp, chain, probe, storeFailed>>

\* the store answers the fetch of a suspended request; its handler runs on
\* to its end
Resume ==
  \E i \in 1..MaxInflight :
    /\ inflight[i].pc = "awaiting"
    /\ \E r \in ResultsOf(ContextOf(inflight, i), store) :
         inflight' = [inflight EXCEPT ![i].pc = "done", ![i].result = r]
    /\ UNCHANGED <<store, resp, chain, probe, storeFailed>>

\* the result is handed to the client
Collect ==
  \E i \in 1..MaxInflight :
    /\ inflight[i].pc = "done"
    /\ inflight' = [inflight EXCEPT ![i] = IdleSlot]
    /\ UNCHANGED <<store, resp, chain, probe, storeFailed>>

NextConcurrent ==
  \/ Begin
  \/ Resume
  \/ Collect

SpecConcurrent == InitConcurrent /\ [][NextConcurrent]_vars

\* ------------------------------------------------------------------ seeding
\* A feature of a seed file, reduced to what seeding looks at: whether it has
\* the structure of an address feature, its properties.id, its
\* properties.hash, and one more property standing for the rest.
Feature(id, hash, street) ==
  [type |-> "Feature", id |-> id, hash |-> hash, street |-> street]

\* a line that parses but is no address feature
BadFeature == [type |-> "Other", id |-> "", hash |-> "", street |-> ""]

SeedFeatures ==
  {Feature("i1", "h1", "a"), Feature("i1", "h1", "b"), Feature("i2", "h2", "a"),
   Feature("i2", "h1", "a"), BadFeature}

isValidAddressFeature(feature) == feature.type = "Feature"

\* the document seeding builds from a feature
AddressDoc(feature) ==
  [id |-> feature.id, hash |-> feature.hash, street |-> feature.street]

\* the unique indexes on properties.id and properties.hash
Unique(coll) ==
  \A a \in coll, b \in coll : (a.id = b.id \/ a.hash = b.hash) => a = b

SeedCollections == {c \in SUBSET {AddressDoc(f) : f \in SeedFeatures \ {BadFeature}} : Unique(c)}

\* ordered bulkWrite of updateOne { filter: properties.id, $setOnInsert,
\* upsert } operations from position i on: an operation whose id exists
\* matches and changes nothing; otherwise the document is inserted, unless
\* its hash exists, which is a duplicate key error that ends the write
RECURSIVE BulkWriteFrom(_, _, _, _)
BulkWriteFrom(coll, docs, i, upserted) ==
  IF i > Len(docs)
    THEN [coll |-> coll, upsertedCount |-> upserted, threw |-> FALSE]
  ELSE IF \E d \in coll : d.id = docs[i].id
    THEN BulkWriteFrom(coll, docs, i + 1, upserted)
  ELSE IF \E d \in coll : d.hash = docs[i].hash
    THEN [coll |-> coll, upsertedCount |-> upserted, threw |-> TRUE]
  ELSE BulkWriteFrom(coll \cup {docs[i]}, docs, i + 1, upserted + 1)

\* bulkWrite(bulkOps); storeFails: the store is unreachable
BulkWrite(coll, docs, storeFails) ==
  IF storeFails THEN [coll |-> coll, upsertedCount |-> 0, threw |-> TRUE]
  ELSE BulkWriteFrom(coll, docs, 1, 0)

\* the features of a sequence that satisfy a test, in order
RECURSIVE SelectValid(_)
SelectValid(features) ==
  IF features = <<>> THEN <<>>
  ELSE IF isValidAddressFeature(Head(features))
    THEN <<AddressDoc(Head(features))>> \o SelectValid(Tail(features))
  ELSE SelectValid(Tail(features))

NoCounts == [inserted |-> 0, skipped |-> 0, errors |-> 0]

AddCounts(a, b) ==
  [inserted |-> a.inserted + b.inserted, skipped |-> a.skipped + b.skipped,
   errors |-> a.errors + b.errors]

\* the counts processFeaturesChunk returns for a chunk with the given
\* number of invalid features and of operations, and the outcome of the write
ChunkCounts(invalid, ops, written) ==
  IF ops = 0 THEN [inserted |-> 0, skipped |-> 0, errors |-> invalid]
  ELSE IF written.threw
    THEN [inserted |-> 0, skipped |-> 0, errors |-> invalid + ops]
  ELSE [inserted |-> written.upsertedCount,
        skipped |-> ops - written.upsertedCount, errors |-> invalid]

\* processFeaturesChunk(features) on collection coll: [coll, counts]
ProcessFeaturesChunk(coll, features, storeFails) ==
  LET docs == SelectValid(features)
      written == IF docs = <<>>
                 THEN [coll |-> coll, upsertedCount |-> 0, threw |-> FALSE]
                 ELSE BulkWrite(coll, docs, storeFails)
  IN [coll |-> written.coll,
      counts |-> ChunkCounts(Len(features) - Len(docs), Len(docs), written)]

\* chunkArray(array, chunkSize)
RECURSIVE ChunkArray(_, _)
ChunkArray(array, chunkSize) ==
  IF array = <<>> THEN <<>>
  ELSE <<Take(array, chunkSize)>> \o ChunkArray(Drop(array, chunkSize), chunkSize)

\* the loop over the chunks of a file read at once, from chunk i on
RECURSIVE SeedChunksFrom(_, _, _, _, _)
SeedChunksFrom(coll, chunks, i, counts, storeFails) ==
  IF i > Len(chunks) THEN [coll |-> coll, counts |-> counts]
  ELSE LET done == ProcessFeaturesChunk(coll, chunks[i], storeFails)
       IN SeedChunksFrom(done.coll, chunks, i + 1,
                         AddCounts(counts, done.counts), storeFails)

\* seedFromFile for a file of features read at once
SeedFromFile(coll, features, storeFails) ==
  SeedChunksFrom(coll, ChunkArray(features, CHUNK_SIZE), 1, NoCounts, storeFails)

SeedFiles == UNION {[1..n -> SeedFeatures] : n \in 0..MaxFeatures}

InitSeedTwice ==
  /\ store = {}
  /\ resp = NoResp
  /\ chain = NoChain
  /\ probe = NoProbe
  /\ storeFailed = FALSE
  /\ inflight = <<>>

\* the same file is seeded twice into a collection
SeedTwice ==
  /\ probe.kind = "none"
  /\ \E before \in SeedCollections, file \in SeedFiles, storeFails \in BOOLEAN :
       LET first == SeedFromFile(before, file, storeFails)
           second == SeedFromFile(first.coll, file, storeFails)
       IN probe' = [kind |-> "seedTwice", before |-> before, file |-> file,
                    storeFails |-> storeFails, first |-> first, second |-> second]
  /\ UNCHANGED <<store, resp, chain, storeFailed, inflight>>

ForgetSeed ==
  /\ probe.kind = "seedTwice"
  /\ probe' = NoProbe
  /\ UNCHANGED <<store, resp, chain, storeFailed, inflight>>

NextSeedTwice ==
  \/ SeedTwice
  \/ ForgetSeed

SpecSeedTwice == InitSeedTwice /\ [][NextSeedTwice]_vars

\* ------------------------------------------------- seeding a streamed file
\* A JSONL file is read through the 'data' and 'end' handlers of a stream.
\* The text of the file is a sequence of tokens: the text of a feature, text
\* that is no JSON, or a line break. Both handlers are asynchronous: each
\* runs up to its await of processFeaturesChunk and is resumed later.
NewLine == [type |-> "newline", id |-> "", hash |-> "", street |-> ""]

\* text that JSON.parse rejects
Junk == [type |-> "junk", id |-> "", hash |-> "", street |-> ""]

StreamLines ==
  {Feature("i1", "h1", "a"), Feature("i2", "h2", "a"), BadFeature, Junk}

\* the text of a file of the given lines, each ended by a line break
RECURSIVE FileText(_)
FileText(lines) ==
  IF lines = <<>> THEN <<>> ELSE <<Head(lines), NewLine>> \o FileText(Tail(lines))

\* the files: up to MaxLines lines, the last line break present or not
StreamTexts ==
  UNION {{FileText(ls), Take(FileText(ls), 2 * Len(ls) - 1)} :
           ls \in UNION {[1..n -> StreamLines] : n \in 1..MaxLines}}

\* text.split('\n'): the pieces between the line breaks, cur being the
\* piece under construction
RECURSIVE SplitLines(_, _)
SplitLines(text, cur) ==
  IF text = <<>> THEN <<cur>>
  ELSE IF Head(text) = NewLine THEN <<cur>> \o SplitLines(Tail(text), <<>>)
  ELSE SplitLines(Tail(text), Append(cur, Head(text)))

\* JSON.parse(line.trim()): the value of a piece that is the text of one
\* value, None (a throw) for any other piece
ParseLine(piece) ==
  IF Len(piece) = 1 /\ piece[1] # Junk THEN Some(piece[1]) ELSE None

\* lines.map(parse, failures to null).filter(not null)
RECURSIVE ParsedFeatures(_)
ParsedFeatures(pieces) ==
  IF pieces = <<>> THEN <<>>
  ELSE (IF IsSome(ParseLine(Head(pieces))) THEN <<ParseLine(Head(pieces))[1]>> ELSE <<>>)
         \o ParsedFeatures(Tail(pieces))

NoStream == [kind |-> "none"]

\* seedFromFile on a large file, up to the handlers being attached
OpenedStream(coll, text) ==
  [kind |-> "stream",
   coll |-> coll,           \* the collection
   text |-> text,           \* the whole file
   rest |-> text,           \* what the stream has not delivered yet
   paused |-> FALSE,        \* fileStream.pause() is in effect
   ended |-> FALSE,         \* 'end' was emitted
   buffer |-> <<>>,
   isProcessing |-> FALSE,
   data |-> <<>>,           \* the 'data' handler suspended at its await
   final |-> <<>>,          \* the 'end' handler suspended at its await
   counts |-> NoCounts,     \* insertedCount, skippedCount, errorCount
   processedLines |-> 0,
   lost |-> 0,              \* chunks a 'data' handler returned from unread
   resolved |-> <<>>]       \* the value the promise resolved with

InitSeedStream ==
  /\ store = {}
  /\ resp = NoResp
  /\ chain = NoChain
  /\ probe = NoStream
  /\ storeFailed = FALSE
  /\ inflight = <<>>

OpenStream ==
  /\ probe.kind = "none"
  /\ \E coll \in SeedCollections, text \in StreamTexts :
       probe' = OpenedStream(coll, text)
  /\ UNCHANGED <<store, resp, chain, storeFailed, inflight>>

\* the 'data' handler called with a chunk, up to its first await or, when it
\* awaits nothing, to its end
DataHandler(s, chunk) ==
  IF s.isProcessing
    THEN [s EXCEPT !.paused = TRUE, !.lost = @ + 1]
  ELSE LET pieces == SplitLines(s.buffer \o chunk, <<>>)
           lines == Take(pieces, Len(pieces) - 1)
           buffer == pieces[Len(pieces)]
           features == ParsedFeatures(lines)
       IN IF lines # <<>> /\ features # <<>>
            THEN [s EXCEPT !.buffer = buffer, !.isProcessing = TRUE,
                           !.data = <<[features |-> features, lines |-> Len(lines)]>>]
          ELSE [s EXCEPT !.buffer = buffer, !.paused = FALSE,
                         !.processedLines = @ + Len(lines)]

\* the flowing stream emits 'data' with the next chunk of the file
OnData ==
  /\ probe.kind = "stream"
  /\ ~probe.ended /\ ~probe.paused
  /\ probe.rest # <<>>
  /\ \E k \in 1..Len(probe.rest) :
       probe' = DataHandler([probe EXCEPT !.rest = Drop(@, k)], Take(probe.rest, k))
  /\ UNCHANGED <<store, resp, chain, storeFailed, inflight>>

\* the 'data' handler resumed: the sub-chunks are written, the counters
\* advanced, and finally isProcessing is reset and the stream resumed
DataResumed(s, storeFails) ==
  LET done == SeedChunksFrom(s.coll, ChunkArray(s.data[1].features, CHUNK_SIZE), 1,
                             NoCounts, storeFails)
  IN [s EXCEPT !.coll = done.coll,
               !.counts = AddCounts(@, done.counts),
               !.processedLines = @ + s.data[1].lines,
               !.data = <<>>, !.isProcessing = FALSE, !.paused = FALSE]

OnDataResume ==
  /\ probe.kind = "stream"
  /\ probe.data # <<>>
  /\ \E storeFails \in BOOLEAN : probe' = DataResumed(probe, storeFails)
  /\ UNCHANGED <<store, resp, chain, storeFailed, inflight>>

\* resolve({ success: true, message, count }) with the counters as they are
Resolved(s) ==
  [s EXCEPT !.resolved = <<[success |-> TRUE, count |-> s.counts.inserted,
                            processed |-> s.processedLines, counts |-> s.counts]>>]

\* the 'end' handler, up to its await or, when it awaits nothing, to its end
EndHandler(s) ==
  IF s.buffer = <<>> THEN Resolved(s)
  ELSE IF IsSome(ParseLine(s.buffer))
    THEN [s EXCEPT !.final = <<ParseLine(s.buffer)[1]>>]
  ELSE Resolved([s EXCEPT !.counts.errors = @ + 1])

\* the stream emits 'end' once the whole file was delivered
OnEnd ==
  /\ probe.kind = "stream"
  /\ ~probe.ended /\ ~probe.paused
  /\ probe.rest = <<>>
  /\ probe' = EndHandler([probe EXCEPT !.ended = TRUE])
  /\ UNCHANGED <<store, resp, chain, storeFailed, inflight>>

\* the 'end' handler resumed after the write of the last line
EndResumed(s, storeFails) ==
  LET done == ProcessFeaturesChunk(s.coll, s.final, storeFails)
  IN Resolved([s EXCEPT !.coll = done.coll,
                        !.counts = AddCounts(@, done.counts),
                        !.processedLines = @ + 1,
                        !.final = <<>>])

OnEndResume ==
  /\ probe.kind = "stream"
  /\ probe.final # <<>>
  /\ \E storeFails \in BOOLEAN : probe' = EndResumed(probe, storeFails)
  /\ UNCHANGED <<store, resp, chain, storeFailed, inflight>>

NextSeedStream ==
  \/ OpenStream
  \/ OnData
  \/ OnDataResume
  \/ OnEnd
  \/ OnEndResume

SpecSeedStream == InitSeedStream /\ [][NextSeedStream]_vars

\* ------------------------------------------- pagination during ingestion
\* A client follows the cursor of a containment request while the seed path
\* inserts documents; probe keeps the collection as it was before the first
\* page was fetched.
InitIngest ==
  /\ store \in SUBSET Universe
  /\ resp = NoResp
  /\ chain = NoChain
  /\ probe = NoProbe
  /\ storeFailed = FALSE
  /\ inflight = <<>>

\* the first request of a traversal: POST within-polygon without a cursor
FirstPage ==
  /\ resp.kind = "none"
  /\ \E body \in {b \in WithinBodies : b.cursor = None}, storeFails \in BOOLEAN :
       /\ resp' = WithinPolygonResult(body, store, storeFails)
       /\ storeFailed' = storeFails
       /\ chain' = IF resp'.ok
                   THEN [live |-> TRUE, body |-> body, pages |-> <<resp'.features>>,
                         nextCursor |-> resp'.nextCursor, hasMore |-> resp'.hasMore]
                   ELSE NoChain
  /\ probe' = [kind |-> "traversal", before |-> store]
  /\ UNCHANGED <<store, inflight>>

\* the seed path inserts a document; its generated key is greater than
\* every key of the collection
Ingest ==
  /\ \E j \in 1..NumRecs :
       /\ Rec(j) \notin store
       /\ \A r \in store : OidLess(r._id, Rec(j)._id)
       /\ store' = store \cup {Rec(j)}
  /\ UNCHANGED <<resp, chain, probe, storeFailed, inflight>>

NextIngest ==
  \/ FirstPage
  \/ FollowCursor
  \/ Ingest
  \/ Respond

SpecIngest == InitIngest /\ [][NextIngest]_vars

\* ------------------------------------------------------- the candidate pool
\* The candidate fetch of a search over a collection in which n records
\* match the tokens; the records are numbered in the order of the store.
PoolLimits == OptNumbers \cup {Some(50), Some(51), Some(100)}

InitPool ==
  /\ store = {}
  /\ resp = NoResp
  /\ chain = NoChain
  /\ probe = NoProbe
  /\ storeFailed = FALSE
  /\ inflight = <<>>

\* find(query).limit(Math.max(limit * 2, 100)) and the scoring of what it
\* returns
FetchCandidates ==
  /\ probe.kind = "none"
  /\ \E n \in 0..MaxMatching, limit \in PoolLimits :
       LET body == SearchBody(Some(<<"a">>), limit)
           candidates == StoreLimit([i \in 1..n |-> i], PoolSize(SearchLimitOf(body)))
           scored == [i \in 1..Len(candidates) |-> candidates[i]]
       IN probe' = [kind |-> "pool", matching |-> n, body |-> body,
                    fetched |-> Len(candidates), scored |-> Len(scored)]
  /\ UNCHANGED <<store, resp, chain, storeFailed, inflight>>

ForgetPool ==
  /\ probe.kind = "pool"
  /\ probe' = NoProbe
  /\ UNCHANGED <<store, resp, chain, storeFailed, inflight>>

NextPool ==
  \/ FetchCandidates
  \/ ForgetPool

SpecPool == InitPool /\ [][NextPool]_vars

\* ----------------------------------------------------- scoring two candidates
\* a record that shares no character with the sample queries
Unrelated ==
  [_id |-> Oid(14), pt |-> <<5, 5>>, street |-> <<"f", "f">>,
   number |-> <<"9">>, postcode |-> <<>>, city |-> <<"e", "e">>,
   district |-> <<>>, region |-> <<>>]

\* the candidates that are scored against each other
ScoreRecords == {Rec(i) : i \in 1..Len(SampleStreet)} \cup {Unrelated}

\* non-blank queries
ScoreQueries ==
  {<<"a", "b">>, <<"A", "B">>, <<" ", "a", "b">>, <<"a", "b", "c">>,
   <<"c", "a", "b">>, <<"d", "d">>, <<"c", "d">>, <<"b">>}

InitScore ==
  /\ store = {}
  /\ resp = NoResp
  /\ chain = NoChain
  /\ probe = NoProbe
  /\ storeFailed = FALSE
  /\ inflight = <<>>

\* step 2 of getAddresses applied to two candidates of one pool
ScoreCandidates ==
  /\ probe.kind = "none"
  /\ \E q \in ScoreQueries, a \in ScoreRecords, b \in ScoreRecords :
       probe' = [kind |-> "score", query |-> q, first |-> a, second |-> b,
                 firstScore |-> ScoreOf(a, ToLowerCase(Trim(q))),
                 secondScore |-> ScoreOf(b, ToLowerCase(Trim(q)))]
  /\ UNCHANGED <<store, resp, chain, storeFailed, inflight>>

ForgetScores ==
  /\ probe.kind = "score"
  /\ probe' = NoProbe
  /\ UNCHANGED <<store, resp, chain, storeFailed, inflight>>

NextScore ==
  \/ ScoreCandidates
  \/ ForgetScores

SpecScore == InitScore /\ [][NextScore]_vars

\* ------------------------------------------------------- parsing WKT texts
RECURSIVE Repeat(_, _)
Repeat(c, n) == IF n <= 0 THEN <<>> ELSE <<c>> \o Repeat(c, n - 1)

\* parts joined by sep
RECURSIVE JoinWith(_, _)
JoinWith(parts, sep) ==
  IF parts = <<>> THEN <<>>
  ELSE IF Len(parts) = 1 THEN parts[1]
  ELSE parts[1] \o sep \o JoinWith(Tail(parts), sep)

TextKeywords == {<<>>, <<"POLYGON">>, <<"polygon">>, <<"MULTIPOLYGON">>, <<"POINT">>}

TextBodies ==
  {<<>>,
   <<"0", " ", "0", ",", "0", " ", "2", ",", "2", " ", "2", ",", " ", "2", " ", "0",
     ",", "0", " ", "0">>,
   <<"0", " ", "0", ",", "4", " ", "4">>,
   <<"1", " ", "1", ")", ",", "(", "2", " ", "2">>}

\* keyword, parentheses and body put together, with or without padding
TextOf(pad, keyword, opens, body, closes) ==
  (IF pad THEN <<" ">> ELSE <<>>) \o keyword \o Repeat("(", opens) \o body
    \o Repeat(")", closes) \o (IF pad THEN <<" ">> ELSE <<>>)

\* A serialized geometry is given by the tokens of its pairs: a point is a
\* sequence of tokens, a ring a sequence of points.
RingBox ==
  << <<<<"0">>, <<"0">>>>, <<<<"0">>, <<"2">>>>, <<<<"2">>, <<"2">>>>,
     <<<<"2">>, <<"0">>>>, <<<<"0">>, <<"0">>>> >>

RingOpen == << <<<<"1">>, <<"1">>>>, <<<<"1", "2">>, <<"-", "3">>>> >>

RingOneToken == << <<<<"0">>, <<"0">>>>, <<<<"5">>>> >>

RingThreeTokens == << <<<<"1">>, <<"2">>, <<"3">>>>, <<<<"4">>, <<"5">>>> >>

RingPrefixNumber == << <<<<"3", "x">>, <<"4">>>>, <<<<"0">>, <<"0">>>> >>

TokenRings == {RingBox, RingOpen, RingOneToken, RingThreeTokens, RingPrefixNumber}

TokenPolygons == UNION {[1..n -> TokenRings] : n \in 1..MaxRings}

TokenMultiPolygons ==
  UNION {[1..n -> {<<r>> : r \in TokenRings} \cup {<<RingBox, RingOpen>>}] :
           n \in 1..MaxPolys}

\* the text of a sequence of rings: (ring),(ring)
SerializeRings(rings, spaced) ==
  JoinWith(
    [i \in 1..Len(rings) |->
       <<"(">>
         \o JoinWith([j \in 1..Len(rings[i]) |-> JoinWith(rings[i][j], <<" ">>)],
                     IF spaced THEN <<",", " ">> ELSE <<",">>)
         \o <<")">>],
    IF spaced THEN <<" ", ",", " ">> ELSE <<",">>)

SerializePolygon(rings, lower, spaced) ==
  (IF spaced THEN <<" ">> ELSE <<>>)
    \o (IF lower THEN <<"polygon">> ELSE <<"POLYGON">>)
    \o (IF spaced THEN <<" ">> ELSE <<>>)
    \o <<"(">> \o SerializeRings(rings, spaced) \o <<")">>
    \o (IF spaced THEN <<" ">> ELSE <<>>)

SerializeMultiPolygon(polygons, lower, spaced) ==
  (IF lower THEN <<"multipolygon">> ELSE <<"MULTIPOLYGON">>)
    \o (IF spaced THEN <<" ">> ELSE <<>>)
    \o <<"(">>
    \o JoinWith([i \in 1..Len(polygons) |->
                   <<"(">> \o SerializeRings(polygons[i], spaced) \o <<")">>],
                IF spaced THEN <<",", " ">> ELSE <<",">>)
    \o <<")">>

InitParse ==
  /\ store = {}
  /\ resp = NoResp
  /\ chain = NoChain
  /\ probe = NoProbe
  /\ storeFailed = FALSE
  /\ inflight = <<>>

\* parseWktRegion applied to an arbitrary text
ParseText ==
  /\ probe.kind = "none"
  /\ \E pad \in BOOLEAN, keyword \in TextKeywords, opens \in 0..MaxParens,
        body \in TextBodies, closes \in 0..MaxParens :
       probe' = [kind |-> "text",
                 input |-> TextOf(pad, keyword, opens, body, closes),
                 result |-> ParseWktRegion(TextOf(pad, keyword, opens, body, closes))]
  /\ UNCHANGED <<store, resp, chain, storeFailed, inflight>>

\* parseWktRegion applied to the text of a polygon given by its tokens
ParseSerializedPolygon ==
  /\ probe.kind = "none"
  /\ \E rings \in TokenPolygons, lower \in BOOLEAN, spaced \in BOOLEAN :
       probe' = [kind |-> "serialized", type |-> "Polygon", tokens |-> <<rings>>,
                 input |-> SerializePolygon(rings, lower, spaced),
                 result |-> ParseWktRegion(SerializePolygon(rings, lower, spaced))]
  /\ UNCHANGED <<store, resp, chain, storeFailed, inflight>>

\* parseWktRegion applied to the text of a multipolygon given by its tokens
ParseSerializedMultiPolygon ==
  /\ probe.kind = "none"
  /\ \E polygons \in TokenMultiPolygons, lower \in BOOLEAN, spaced \in BOOLEAN :
       probe' = [kind |-> "serialized", type |-> "MultiPolygon", tokens |-> polygons,
                 input |-> SerializeMultiPolygon(polygons, lower, spaced),
                 result |-> ParseWktRegion(SerializeMultiPolygon(polygons, lower, spaced))]
  /\ UNCHANGED <<store, resp, chain, storeFailed, inflight>>

ForgetParse ==
  /\ probe.kind \in {"text", "serialized"}
  /\ probe' = NoProbe
  /\ UNCHANGED <<store, resp, chain, storeFailed, inflight>>

NextParse ==
  \/ ParseText
  \/ ParseSerializedPolygon
  \/ ParseSerializedMultiPolygon
  \/ ForgetParse

SpecParse == InitParse /\ [][NextParse]_vars

\* ------------------------------------------------------------- properties
IsWithinOk == resp.kind = "within" /\ resp.ok

IsSearchOk == resp.kind = "search" /\ resp.ok

\* the key a feature carries in string form
KeyOf(f) == ObjectIdFromString(f._id)

\* the records of st inside the region a WKT string denotes, by ascending key
RegionRecords(st, wkt) ==
  SortById({r \in st : GeoWithin(r.pt, ParseWktRegion(wkt))})

\* C1: following nextCursor from a first request without cursor until a page
\* reports hasMore = false yields pages whose concatenation is exactly the
\* records of the region by ascending key: none missing, none twice, keys
\* strictly ascending within and across pages.
C1_PaginationComplete ==
  (chain.live /\ ~chain.hasMore) =>
    LET all == Concat(chain.pages)
        expected == RegionRecords(store, chain.body.searchRegion[1])
    IN /\ all = [i \in 1..Len(expected) |-> ToFeature(expected[i])]
       /\ \A i \in 1..(Len(all) - 1) : OidLess(KeyOf(all[i]), KeyOf(all[i + 1]))

\* C2: a successful containment request reports hasMore exactly when the
\* number of records in the page equals the effective batch size (batchSize
\* if supplied, otherwise limit if supplied, otherwise 500).
C2_HasMoreIffFullPage ==
  IsWithinOk =>
    LET b == resp.body
        effective == IF b.batchSize # None THEN b.batchSize[1]
                     ELSE IF b.limit # None THEN b.limit[1] ELSE 500
    IN resp.hasMore <=> (Len(resp.features) = effective)

\* a full page was returned and reported as such
C2_Witness ==
  /\ IsWithinOk
  /\ resp.hasMore
  /\ Len(resp.features) >= 1

\* C3: in a successful containment response nextCursor is the string form of
\* the key of the last record of the page, and is null exactly when the page
\* is empty.
C3_NextCursorIsLastKey ==
  IsWithinOk =>
    /\ (resp.nextCursor = None) <=> (resp.features = <<>>)
    /\ resp.features # <<>> =>
         \E r \in store :
           /\ ToFeature(r) = resp.features[Len(resp.features)]
           /\ resp.nextCursor = Some(OidToString(r._id))

\* a page of several records with its cursor
C3_Witness ==
  /\ IsWithinOk
  /\ Len(resp.features) >= 2
  /\ resp.nextCursor # None

\* C4: the page of a successful containment request is exactly the first N
\* records, by ascending key, of the records inside the region whose key is
\* greater than the cursor (when one is given), N being batchSize if
\* supplied, otherwise limit if supplied, otherwise 500.
C4_PageIsFirstN ==
  IsWithinOk =>
    LET b == resp.body
        n == IF b.batchSize # None THEN b.batchSize[1]
             ELSE IF b.limit # None THEN b.limit[1] ELSE 500
        inRegion == RegionRecords(store, b.searchRegion[1])
        hasKey == b.cursor # None /\ ObjectIdIsValid(b.cursor[1])
        after == SelectSeq(inRegion,
                   LAMBDA r : hasKey => OidLess(ObjectIdFromString(b.cursor[1]), r._id))
    IN resp.docs = Take(after, n)

\* C5: a containment request whose cursor is present and does not decode to
\* a record key fails, and no store fetch is issued for it.
C5_InvalidCursorRejected ==
  (resp.kind = "within" /\ resp.body.cursor # None
     /\ ~ObjectIdIsValid(resp.body.cursor[1])) =>
    (~resp.ok /\ resp.fetched = <<>>)

\* C6: whenever limit is supplied to a containment request, the response
\* holds at most limit features, with or without batchSize.  A count is
\* never negative, so the cap is stated as max(limit, 0).
C6_LimitCapsResult ==
  (IsWithinOk /\ resp.body.limit # None) =>
    Len(resp.features) <= Max2(resp.body.limit[1], 0)

\* C7: free-text search returns at most limit features (100 when limit is
\* omitted), for every limit value.  A count is never negative, so the bound
\* is stated as max(limit, 0).
C7_SearchAtMostLimit ==
  IsSearchOk =>
    LET limit == IF resp.body.limit # None THEN resp.body.limit[1] ELSE 100
    IN Len(resp.features) <= Max2(limit, 0)

\* the query is absent, empty or made of white space only
BlankQuery(q) == q = None \/ \A i \in 1..Len(q[1]) : q[1][i] = " "

\* C8: a search whose query is absent, empty or white space only succeeds
\* with an empty FeatureCollection and issues no store fetch.
C8_BlankQueryNoFetch ==
  (resp.kind = "search" /\ BlankQuery(resp.body.searchQuery)) =>
    (resp.ok /\ resp.features = <<>> /\ resp.fetched = <<>>)

\* a white-space-only query was answered
C8_Witness ==
  /\ resp.kind = "search"
  /\ resp.body.searchQuery = Some(<<" ">>)
  /\ resp.ok
  /\ resp.fetched = <<>>

\* C9: a non-blank query that leaves no token is answered with an empty
\* result, without a store fetch and without an error.
C9_NoTokenReturnsEmpty ==
  (resp.kind = "search" /\ ~BlankQuery(resp.body.searchQuery)
     /\ \A i \in 1..Len(resp.body.searchQuery[1]) :
          ~IsAlnum(resp.body.searchQuery[1][i])) =>
    (resp.ok /\ resp.features = <<>> /\ resp.fetched = <<>>)

\* C10: with the candidates sorted by descending score and best the top
\* score, the result is the candidates scoring at least max(0.70, best - 0.08)
\* when best >= 0.75 and the whole sorted list otherwise, truncated to limit.
C10_RankingPolicy ==
  (IsSearchOk /\ resp.docs # <<>>) =>
    LET q == ToLowerCase(Trim(resp.body.searchQuery[1]))
        limit == IF resp.body.limit # None THEN resp.body.limit[1] ELSE 100
        sorted == SortByScore([i \in 1..Len(resp.docs) |-> Scored(resp.docs[i], q)])
        best == sorted[1].score
        floor == IF RLeq(Rat(78, 100), best) THEN RSub(best, Rat(8, 100))
                 ELSE Rat(70, 100)
        kept == IF RLeq(Rat(75, 100), best)
                THEN SelectSeq(sorted, LAMBDA c : RLeq(floor, c.score))
                ELSE sorted
        expected == Take(kept, limit)
    IN resp.features = [i \in 1..Len(expected) |-> ToFeature(expected[i])]

\* the position of the candidate with string key id in the retrieval order
PosInDocs(id) == CHOOSE i \in 1..Len(resp.docs) : OidToString(resp.docs[i]._id) = id

\* C11: the features of a successful search are in non-increasing score
\* order, and two features of equal score are in the order in which the
\* candidate fetch returned them.
C11_BestMatchFirst ==
  IsSearchOk =>
    \A i, j \in 1..Len(resp.features) :
      i < j =>
        /\ RLeq(resp.features[j].score, resp.features[i].score)
        /\ (resp.features[i].score = resp.features[j].score =>
              PosInDocs(resp.features[i]._id) < PosInDocs(resp.features[j]._id))

\* a better match moved ahead of two equally scored candidates that the
\* store returned in descending key order
C11_Witness ==
  /\ IsSearchOk
  /\ Len(resp.features) >= 3
  /\ resp.features[1].score # resp.features[2].score
  /\ resp.features[2].score = resp.features[3].score
  /\ OidLess(KeyOf(resp.features[3]), KeyOf(resp.features[2]))
  /\ PosInDocs(resp.features[1]._id) > 1

\* no field of r has a character in common with q, ignoring case
NoFieldOverlap(r, q) ==
  \A j \in 1..4 :
    \A i \in 1..Len(SearchFields(r)[j]), k \in 1..Len(q) :
      LowerChar(SearchFields(r)[j][i]) # LowerChar(q[k])

\* C12: a candidate whose street equals the query verbatim scores at least
\* as much as every candidate of the pool that has no field overlap with the
\* query.
C12_VerbatimStreetOutranks ==
  (probe.kind = "score" /\ probe.first.street = probe.query
     /\ NoFieldOverlap(probe.second, probe.query)) =>
    RLeq(probe.secondScore, probe.firstScore)

\* a verbatim street match was scored against an unrelated candidate
C12_Witness ==
  /\ probe.kind = "score"
  /\ probe.first.street = probe.query
  /\ NoFieldOverlap(probe.second, probe.query)
  /\ probe.firstScore = Rat(1, 1)
  /\ probe.secondScore = Rat(0, 1)

\* C13: a search is deterministic: whatever order the candidate fetch
\* returns the matching records in, the same request against the same
\* dataset yields the same features in the same order.
C13_SearchDeterministic ==
  (IsSearchOk /\ resp.fetched # <<>>) =>
    \A c \in CandidateLists(store, TokensOf(resp.body), SearchLimitOf(resp.body)) :
      GetAddressesResult(resp.body, c, FALSE).features = resp.features

\* C14: when the dataset holds a record whose city equals the query, a
\* search with limit >= 1 gives each such record a score of at least 0.75
\* and returns it.
C14_CityMatchReturned ==
  (IsSearchOk /\ IsSome(resp.body.searchQuery) /\ SearchLimitOf(resp.body) >= 1) =>
    \A r \in store :
      r.city = resp.body.searchQuery[1] =>
        /\ RLeq(Rat(75, 100), ScoreOf(r, ToLowerCase(Trim(resp.body.searchQuery[1]))))
        /\ \E i \in 1..Len(resp.features) :
             resp.features[i]._id = OidToString(r._id)

\* the query occurs in the district or the region of r and in no searched
\* field
OnlyInDistrictOrRegion(r, q) ==
  /\ \/ Contains(ToLowerCase(r.district), q)
     \/ Contains(ToLowerCase(r.region), q)
  /\ \A j \in 1..4 : ~Contains(ToLowerCase(SearchFields(r)[j]), q)

\* C15: a record whose district or region contains the query, and no other
\* field does, is found by the free-text search.
C15_DistrictRegionSearched ==
  (IsSearchOk /\ ~BlankQuery(resp.body.searchQuery) /\ resp.body.limit = None) =>
    \A r \in store :
      OnlyInDistrictOrRegion(r, ToLowerCase(Trim(resp.body.searchQuery[1]))) =>
        \E i \in 1..Len(resp.features) : resp.features[i]._id = OidToString(r._id)

IsParsed == probe.kind \in {"text", "serialized"}

\* the keyword a text begins with after trimming, in lower case; "" if none
KeywordOf(text) ==
  LET t == Trim(text) IN
  IF t # <<>> /\ LowerChar(t[1]) \in {"polygon", "multipolygon"}
  THEN LowerChar(t[1]) ELSE ""

\* opening minus closing parentheses among the first n characters
RECURSIVE ParenDepth(_, _)
ParenDepth(text, n) ==
  IF n = 0 THEN 0
  ELSE ParenDepth(text, n - 1)
         + (IF text[n] = "(" THEN 1 ELSE IF text[n] = ")" THEN 0 - 1 ELSE 0)

Balanced(text) ==
  /\ ParenDepth(text, Len(text)) = 0
  /\ \A n \in 0..Len(text) : ParenDepth(text, n) >= 0

\* C16: the parser fails for every text that does not begin, after trimming
\* and ignoring case, with POLYGON or MULTIPOLYGON, and a geometry it
\* returns has the shape kind of the keyword.
C16_KeywordSelectsKind ==
  IsParsed =>
    /\ KeywordOf(probe.input) = "" => ~probe.result.ok
    /\ probe.result.ok =>
         probe.result.type =
           (IF KeywordOf(probe.input) = "polygon" THEN "Polygon" ELSE "MultiPolygon")

\* a padded lower-case polygon text was parsed into a Polygon
C16_Witness ==
  /\ probe.kind = "text"
  /\ probe.input # <<>>
  /\ probe.input[1] = " "
  /\ KeywordOf(probe.input) = "polygon"
  /\ probe.result.ok
  /\ probe.result.type = "Polygon"
  /\ Len(probe.result.coordinates) = 2

\* C17: the parser fails for every POLYGON or MULTIPOLYGON text whose
\* parentheses are unbalanced.
C17_UnbalancedRejected ==
  (probe.kind = "text" /\ KeywordOf(probe.input) # "" /\ ~Balanced(probe.input)) =>
    ~probe.result.ok

\* a token that is entirely a number: an optional sign, then digits only
IsNumberToken(t) ==
  LET ds == IF t # <<>> /\ IsSign(t[1]) THEN Tail(t) ELSE t
  IN ds # <<>> /\ \A i \in 1..Len(ds) : IsDigit(ds[i])

NumberOf(t) ==
  IF t[1] = "-" THEN 0 - DecimalValue(Tail(t))
  ELSE IF t[1] = "+" THEN DecimalValue(Tail(t)) ELSE DecimalValue(t)

\* a pair of exactly two tokens that are numbers
PairWellFormed(pt) == Len(pt) = 2 /\ IsNumberToken(pt[1]) /\ IsNumberToken(pt[2])

AllPairsWellFormed(polygons) ==
  \A i \in 1..Len(polygons) :
    \A j \in 1..Len(polygons[i]) :
      \A k \in 1..Len(polygons[i][j]) : PairWellFormed(polygons[i][j][k])

\* C18: the parser fails whenever some pair of some ring is not exactly two
\* white-space separated tokens that are each entirely a number.
C18_MalformedPairRejected ==
  (probe.kind = "serialized" /\ ~AllPairsWellFormed(probe.tokens)) =>
    ~probe.result.ok

\* the polygons of a token geometry with every pair read as two numbers
ValuesOf(polygons) ==
  [i \in 1..Len(polygons) |->
     [j \in 1..Len(polygons[i]) |->
        [k \in 1..Len(polygons[i][j]) |->
           <<NumberOf(polygons[i][j][k][1]), NumberOf(polygons[i][j][k][2])>>]]]

\* C19: the geometry parsed from a well-formed text has the polygons, rings
\* and points of the text, in its order, each point being [first number,
\* second number] of its pair; a ring that is not closed is left as it is.
C19_StructurePreserved ==
  (probe.kind = "serialized" /\ AllPairsWellFormed(probe.tokens)) =>
    /\ probe.result.ok
    /\ probe.result.type = probe.type
    /\ probe.result.coordinates =
         (IF probe.type = "Polygon" THEN ValuesOf(probe.tokens)[1]
          ELSE ValuesOf(probe.tokens))

\* a spaced multipolygon of two polygons, one with an open ring, was parsed
C19_Witness ==
  /\ probe.kind = "serialized"
  /\ probe.type = "MultiPolygon"
  /\ probe.tokens = << <<RingBox, RingOpen>>, <<RingOpen>> >>
  /\ probe.input[2] = " "
  /\ probe.result.ok
  /\ probe.result.coordinates[2][1] = << <<1, 1>>, <<12, 0 - 3>> >>

IsNearOk == resp.kind = "near" /\ resp.ok

\* the field contains the item as a case-insensitive literal substring
ContainsLiterally(field, item) == Contains(ToLowerCase(field), ToLowerCase(item))

\* the record satisfies the filters read as literal substrings
SatisfiesLiterally(r, filters) ==
  IsSome(filters) =>
    /\ \A k \in ListFields :
         ListActive(filters[1][k]) =>
           \E i \in 1..Len(filters[1][k][1]) :
             ContainsLiterally(r[k], filters[1][k][1][i])
    /\ Truthy(filters[1].number) =>
         ContainsLiterally(r.number, filters[1].number[1])

\* C20: a proximity response holds exactly the records within maxDistance
\* meters of the point (1000 when omitted) that contain, for every active
\* filter, one of its items as a case-insensitive literal substring.
C20_NearPointExactly ==
  IsNearOk =>
    {KeyOf(resp.features[i]) : i \in 1..Len(resp.features)} =
      {r._id : r \in {x \in store :
         /\ WithinDistance(x.pt, resp.body.point[1],
                           IF IsSome(resp.body.maxDistance)
                           THEN resp.body.maxDistance[1] ELSE 1000)
         /\ SatisfiesLiterally(x, resp.body.filters)}}

\* the point is missing, has fewer than two coordinates or a non-finite one
PointMalformed(point) ==
  \/ ~IsSome(point)
  \/ Len(point[1]) < 2
  \/ \E i \in 1..Len(point[1]) : point[1][i] = Infinity

\* C21: a proximity request whose point is missing, has fewer than two
\* coordinates or has a non-finite coordinate is rejected with a validation
\* error, and no store query is issued for it.
C21_MalformedPointRejected ==
  (resp.kind = "near" /\ PointMalformed(resp.body.point)) =>
    /\ ~resp.ok
    /\ resp.error = <<"Bad Request", "validation">>
    /\ resp.fetched = <<>>

\* the message that names the query kind of a response
OperationMessage(kind) ==
  IF kind = "search" THEN "Failed to fetch map addresses"
  ELSE IF kind = "within" THEN "Failed to fetch addresses within region"
  ELSE "Failed to fetch addresses near point"

\* the fetch of the request in resp failed: the store was down, or it
\* rejected the query
FetchFailed ==
  \/ storeFailed
  \/ resp.kind = "within" /\ ~GeometryValid(resp.fetched[1].region)
  \/ resp.kind = "near" /\ ~PointUsable(resp.body.point)

\* C22: a request whose store fetch fails ends in an error naming the query
\* kind, returns no feature and issues no second fetch; a fetch that
\* succeeds with zero records gives a successful empty result.
C22_FailedFetchAborts ==
  (resp.kind # "none" /\ resp.fetched # <<>>) =>
    /\ Len(resp.fetched) = 1
    /\ FetchFailed =>
         /\ ~resp.ok
         /\ resp.features = <<>>
         /\ resp.error[1] = OperationMessage(resp.kind)
    /\ (~FetchFailed /\ resp.docs = <<>>) => (resp.ok /\ resp.features = <<>>)

\* the fetch of a search failed although the collection holds a record the
\* query matches
C22_Witness ==
  /\ resp.kind = "search"
  /\ resp.fetched # <<>>
  /\ storeFailed
  /\ ~resp.ok
  /\ \E r \in store : MatchesTokens(r, resp.fetched[1].tokens)

\* C23: with requests interleaved at their store fetches over an unchanged
\* dataset, the result of every finished request is a result the same
\* request gives when run alone, and the dataset is the one the request began
\* with.
C23_RequestsIndependent ==
  \A i \in 1..Len(inflight) :
    inflight[i].pc = "done" =>
      /\ inflight[i].result \in ResultsOf(inflight[i].req, inflight[i].dataset)
      /\ store = inflight[i].dataset

\* a search and a containment request have both finished with records,
\* the search having begun first in the higher slot
C23_Witness ==
  /\ Len(inflight) = MaxInflight
  /\ inflight[1].pc = "done" /\ inflight[1].req.op = "within"
  /\ inflight[1].result.ok /\ inflight[1].result.features # <<>>
  /\ inflight[2].pc = "done" /\ inflight[2].req.op = "search"
  /\ inflight[2].result.ok /\ inflight[2].result.features # <<>>

\* the number of features of a file whose id exists in the collection when
\* they are written: it was there before, or an earlier feature of the file
\* with that id was inserted
DuplicateCount(before, file, after) ==
  Cardinality({i \in 1..Len(file) :
    /\ isValidAddressFeature(file[i])
    /\ \/ \E d \in before : d.id = file[i].id
       \/ \E j \in 1..(i - 1) :
            /\ isValidAddressFeature(file[j])
            /\ file[j].id = file[i].id
            /\ AddressDoc(file[j]) \in after})

\* C24: seeding leaves the existing records unchanged, creates no second
\* record with an id, counts every feature whose id already exists as
\* skipped, and seeding the same file again inserts nothing and leaves the
\* collection unchanged.
C24_DuplicatesSkipped ==
  (probe.kind = "seedTwice" /\ ~probe.storeFails) =>
    /\ probe.before \subseteq probe.first.coll
    /\ \A a \in probe.first.coll, b \in probe.first.coll : a.id = b.id => a = b
    /\ probe.first.counts.skipped =
         DuplicateCount(probe.before, probe.file, probe.first.coll)
    /\ probe.second.counts.inserted = 0
    /\ probe.second.coll = probe.first.coll

\* the field of a feature holds the token, whatever the case of its letters
FieldHolds(field, token) == Contains(ToLowerCase(field), token)

\* C25: every feature a search returns contains every token of the query
\* (the maximal alphanumeric runs of the lowercased query) in its street,
\* number, postcode or city.
C25_FeaturesContainTokens ==
  IsSearchOk =>
    \A i \in 1..Len(resp.features) :
      \A t \in {Tokenize(ToLowerCase(resp.body.searchQuery[1]))[k] :
                 k \in 1..Len(Tokenize(ToLowerCase(resp.body.searchQuery[1])))} :
        \/ FieldHolds(resp.features[i].street, t)
        \/ FieldHolds(resp.features[i].number, t)
        \/ FieldHolds(resp.features[i].postcode, t)
        \/ FieldHolds(resp.features[i].city, t)

\* a query of two tokens returned a feature while the collection holds a
\* record with only one of the tokens
C25_Witness ==
  /\ IsSearchOk
  /\ IsSome(resp.body.searchQuery)
  /\ Len(Tokenize(ToLowerCase(resp.body.searchQuery[1]))) = 2
  /\ resp.features # <<>>
  /\ \E r \in store :
       /\ \A i \in 1..Len(resp.features) : resp.features[i]._id # OidToString(r._id)
       /\ MatchesTokens_AnyToken(r, Tokenize(ToLowerCase(resp.body.searchQuery[1])))

\* C26: the number of candidates a search fetches and scores is at most
\* max(2 x limit, 100), however many records match (limit is 100 when it is
\* omitted).
C26_PoolBounded ==
  probe.kind = "pool" =>
    LET limit == IF IsSome(probe.body.limit) THEN probe.body.limit[1] ELSE 100
        bound == IF 2 * limit > 100 THEN 2 * limit ELSE 100
    IN probe.fetched <= bound /\ probe.scored <= bound

\* more records match than the pool of a search with limit 51 takes
C26_Witness ==
  /\ probe.kind = "pool"
  /\ probe.body.limit = Some(51)
  /\ probe.matching > 102
  /\ probe.fetched = 102

\* the largest of a non-empty set of rationals
LargestOf(S) == CHOOSE x \in S : \A y \in S : RLeq(y, x)

\* the score the formula of C27 gives a record for a query, sim being the
\* similarity of the lowercased values
FormulaScore(addr, q) ==
  LET lq == ToLowerCase(Trim(q))
      street == ToLowerCase(addr.street)
      number == ToLowerCase(addr.number)
      postcode == ToLowerCase(addr.postcode)
      city == ToLowerCase(addr.city)
      best == LargestOf({
                CompareTwoStrings(lq, street \o <<" ">> \o number \o <<" ">>
                                        \o postcode \o <<" ">> \o city),
                RMul(Rat(1, 1), CompareTwoStrings(lq, street)),
                RMul(Rat(9, 10), CompareTwoStrings(lq, city)),
                RMul(Rat(8, 10), CompareTwoStrings(lq, postcode)),
                RMul(Rat(5, 10), CompareTwoStrings(lq, number))})
      boost == IF \E f \in {street, number, postcode, city} : StartsWith(f, lq)
               THEN Rat(15, 100) ELSE Rat(0, 1)
      sum == RAdd(best, boost)
  IN IF RLeq(sum, Rat(1, 1)) THEN sum ELSE Rat(1, 1)

SameRational(a, b) == RLeq(a, b) /\ RLeq(b, a)

\* C27: the score of a candidate is min(1, max(sim(query, street number
\* postcode city), 1.0 sim(query, street), 0.9 sim(query, city),
\* 0.8 sim(query, postcode), 0.5 sim(query, number)) + boost), boost being
\* 0.15 if a lowercased field starts with the lowercased query and 0
\* otherwise, and lies in [0, 1].
C27_ScoreFormula ==
  probe.kind = "score" =>
    /\ SameRational(probe.firstScore, FormulaScore(probe.first, probe.query))
    /\ SameRational(probe.secondScore, FormulaScore(probe.second, probe.query))
    /\ RLeq(Rat(0, 1), probe.firstScore) /\ RLeq(probe.firstScore, Rat(1, 1))
    /\ RLeq(Rat(0, 1), probe.secondScore) /\ RLeq(probe.secondScore, Rat(1, 1))

\* a street equal to the query, whose boosted score is capped at 1, scored
\* next to a street that only begins with the query
C27_Witness ==
  /\ probe.kind = "score"
  /\ probe.query = <<"a", "b">>
  /\ probe.first.street = <<"a", "b">>
  /\ probe.firstScore = Rat(1, 1)
  /\ probe.second.street = <<"a", "b", "c">>
  /\ ~RLeq(Rat(1, 1), probe.secondScore)
  /\ ~RLeq(probe.secondScore, Rat(15, 100))

\* C28: whenever a page of a successful containment request has hasMore =
\* true, its nextCursor is non-null and strictly greater than the cursor of
\* the request that produced it, whatever batch size the request carried, so
\* that following nextCursor reaches a page with hasMore = false.
C28_CursorAdvances ==
  (IsWithinOk /\ resp.hasMore) =>
    /\ resp.nextCursor # None
    /\ (resp.body.cursor # None /\ ObjectIdIsValid(resp.body.cursor[1])) =>
         OidLess(ObjectIdFromString(resp.body.cursor[1]),
                 ObjectIdFromString(resp.nextCursor[1]))

\* C29: while documents with keys greater than all existing keys are
\* inserted between page fetches, a cursor-following traversal returns no
\* record twice, its keys are strictly ascending across pages, and when it
\* ends every record of the region that existed before the first page was
\* fetched has been returned.
C29_ConsistentDuringIngestion ==
  (probe.kind = "traversal" /\ chain.live) =>
    LET all == Concat(chain.pages)
        region == ParseWktRegion(chain.body.searchRegion[1])
    IN /\ \A i \in 1..Len(all) : \A j \in 1..Len(all) : all[i] = all[j] => i = j
       /\ \A i \in 1..(Len(all) - 1) : OidLess(KeyOf(all[i]), KeyOf(all[i + 1]))
       /\ ~chain.hasMore =>
            \A r \in probe.before :
              GeoWithin(r.pt, region) => \E i \in 1..Len(all) : all[i] = ToFeature(r)

\* the number of lines of a text: its tokens other than line breaks
LinesOf(text) == Len(SelectSeq(text, LAMBDA t : t # NewLine))

\* C30: when the seeding of a streamed file has resolved with success, every
\* line was processed exactly once and all processing has finished: the
\* reported inserted + skipped + errors is the number of lines of the file,
\* no chunk delivered during the processing of an earlier one was lost, and
\* no 'data' handler is still in flight.
C30_StreamAccountingComplete ==
  (probe.kind = "stream" /\ probe.resolved # <<>>) =>
    LET reported == probe.resolved[1].counts
    IN /\ reported.inserted + reported.skipped + reported.errors = LinesOf(probe.text)
       /\ probe.lost = 0
       /\ probe.data = <<>> /\ ~probe.isProcessing

====
